---- MODULE Spec2Model ----
(***************************************************************************)
(* Model of the run-time state of the IMU acquisition application:         *)
(* the TinyDB-backed AcquisitionDB (IMU_app/database.py), the helpers it   *)
(* relies on (IMU_app/tis_camera_win/__init__.py, IMU_app/session.py) and  *)
(* the request handlers of IMU_app/main.py that drive it.                  *)
(*                                                                         *)
(* A table is the sequence of its documents in doc_id order.  A document   *)
(* is a function from field names to values; a field the document does not *)
(* declare is outside its DOMAIN.  The state is the content of the JSON    *)
(* file: database.py sets cache_size = 0 as the default of every table and *)
(* every operation re-reads and re-writes the file.                        *)
(***************************************************************************)
EXTENDS Integers, Sequences, FiniteSets, TLC

VARIABLES session, rpi, cams, rodents, users, folder, last, reqs,
          storage, user_data, recorder, chunk, shared_status

dbVars == <<session, rpi, cams>>
recVars == <<storage, user_data, recorder, chunk, shared_status>>
vars == <<session, rpi, cams, rodents, users, folder, last, reqs, recVars>>

(***************************************************************************)
(* Bounds of the model.                                                    *)
(***************************************************************************)
MaxBlocks == 3
MaxLedgerBlocks == 1
MaxRpi == 2
MaxPid == 2
MaxProcs == 2

Pids == 1..MaxPid

(***************************************************************************)
(* Generic helpers.                                                        *)
(***************************************************************************)
Range(s) == {s[i] : i \in DOMAIN s}

Has(doc, k) == k \in DOMAIN doc

EmptyDict == <<>>

\* All orderings of a finite set, as sequences without repetition
Orders(S) == {s \in [1..Cardinality(S) -> S] : Range(s) = S}

(***************************************************************************)
(* TinyDB queries and table operations (tinydb 4: where / Query,           *)
(* Table.insert / update / upsert / search / contains / get), as used by   *)
(* database.py.  A query is a record naming a field, a test and a value.   *)
(***************************************************************************)
Where(field, test, value) == [field |-> field, test |-> test, value |-> value]

\* A query on a field is false of a document that does not declare it
Eval(doc, q) ==
  /\ Has(doc, q.field)
  /\ CASE q.test = "eq" -> doc[q.field] = q.value
       [] q.test = "ne" -> doc[q.field] # q.value
       [] q.test = "exists" -> TRUE
       [] q.test = "has_key" -> q.value \in DOMAIN doc[q.field]

\* The positions (doc_ids, in order) of the documents matching q
Matching(tbl, q) == {i \in DOMAIN tbl : Eval(tbl[i], q)}

\* Table.insert(document)
TableInsert(tbl, doc) == Append(tbl, doc)

\* Table.update(transform, cond): every matching document is replaced by
\* its image; images[i] is the image of the document at position i
TableUpdate(tbl, images, q) ==
  [i \in DOMAIN tbl |-> IF i \in Matching(tbl, q) THEN images[i] ELSE tbl[i]]

\* Table.upsert(document, cond): dict.update the matching documents with
\* the fields of document, or insert document when nothing matches
TableUpsert(tbl, doc, q) ==
  IF Matching(tbl, q) # {}
  THEN TableUpdate(tbl, [i \in DOMAIN tbl |-> doc @@ tbl[i]], q)
  ELSE TableInsert(tbl, doc)

\* Table.remove(cond): the documents that do not match, in doc_id order
RECURSIVE TableRemove(_, _)
TableRemove(tbl, q) ==
  IF Len(tbl) = 0 THEN <<>>
  ELSE LET front == TableRemove(SubSeq(tbl, 1, Len(tbl) - 1), q)
       IN  IF Eval(tbl[Len(tbl)], q) THEN front ELSE Append(front, tbl[Len(tbl)])

\* Table.search(cond): the matching documents, in doc_id order
RECURSIVE TableSearch(_, _)
TableSearch(tbl, q) ==
  IF Len(tbl) = 0 THEN <<>>
  ELSE LET front == TableSearch(SubSeq(tbl, 1, Len(tbl) - 1), q)
       IN  IF Eval(tbl[Len(tbl)], q) THEN Append(front, tbl[Len(tbl)]) ELSE front

\* Table.get(cond): the first matching document, in a sequence of length
\* one, or the empty sequence for None
TableGet(tbl, q) ==
  IF Matching(tbl, q) = {} THEN <<>> ELSE <<Head(TableSearch(tbl, q))>>

(***************************************************************************)
(* Block documents (session.create_default_block, main.create_new_session) *)
(***************************************************************************)
\* f"{n:02d}": the decimal digits of n, padded with zeros to two digits
RECURSIVE Digits(_)
Digits(n) == IF n < 10 THEN <<n>> ELSE Append(Digits(n \div 10), n % 10)

\* f"{n:02d}" without the padding
Format02d_unpadded(n) == Digits(n)

Format02d(n) == IF n < 10 THEN <<0, n>> ELSE Digits(n)

\* create_default_block(block_id): running is True, data_folder comes from
\* the configuration, started_on and date from the clock
ConfigDataFolder == "data"

create_default_block(block_id, now) ==
  [running |-> TRUE, started_on |-> now, date |-> now,
   data_folder |-> ConfigDataFolder, block_id |-> block_id]

\* The documents handed to insert_active_block in the model: the running
\* field may be True, False or not declared
BlockIds == {Format02d(1), Format02d(2)}

BlockDoc(id, r) ==
  LET base == [block_id |-> id, session_path |-> "data/s", block_path |-> "data/s/b"]
  IN  IF r = "none" THEN base ELSE [running |-> (r = "true")] @@ base

BlockInputs == {BlockDoc(id, r) : id \in BlockIds, r \in {"true", "false", "none"}}

(***************************************************************************)
(* Session handling (database.py, lines 182-227).                          *)
(***************************************************************************)
\* where("running") == True
IsRunning == Where("running", "eq", TRUE)

\* where("block_id") == "01"
IsFirstBlock == Where("block_id", "eq", Format02d(1))

has_session(tbl) == Len(tbl) > 0

has_active_block(tbl) == Matching(tbl, IsRunning) # {}

get_active_block(tbl) == TableGet(tbl, IsRunning)

\* set_blocks_to_inactive with the has_session test inverted
set_blocks_to_inactive_inverted(tbl) ==
  IF ~has_session(tbl)
  THEN TableUpsert(tbl, [running |-> FALSE], Where("running", "exists", TRUE))
  ELSE tbl

set_blocks_to_inactive(tbl) ==
  IF has_session(tbl)
  THEN TableUpsert(tbl, [running |-> FALSE], Where("running", "exists", TRUE))
  ELSE tbl

\* insert_active_block without the call of set_blocks_to_inactive
insert_active_block_no_reset(tbl, doc) == TableInsert(tbl, doc)

insert_active_block(tbl, doc) ==
  TableInsert(set_blocks_to_inactive(tbl), doc)

\* get_session_properties raises when no block has block_id "01" (None is
\* subscripted) or when that block lacks one of the session fields
get_session_path_raises(tbl) ==
  \/ TableGet(tbl, IsFirstBlock) = <<>>
  \/ ~Has(TableGet(tbl, IsFirstBlock)[1], "session_path")

get_session_path(tbl) == TableGet(tbl, IsFirstBlock)[1]["session_path"]

\* get_active_block_path that returns where the code raises
get_active_block_path_returns(tbl) == FALSE

\* get_active_block_path raises ValueError when no block is running, and
\* KeyError when the running block declares no block_path
get_active_block_path_raises(tbl) ==
  \/ get_active_block(tbl) = <<>>
  \/ ~Has(get_active_block(tbl)[1], "block_path")

\* save_in_session_folder raises exactly when the session is not empty and
\* get_session_path raises
save_in_session_folder_raises(tbl) ==
  has_session(tbl) /\ get_session_path_raises(tbl)

\* save_in_session_folder: the copies of the database file it writes, each
\* with the folder it is written to and the session table it holds; nothing
\* is copied when the session is empty
save_in_session_folder(tbl) ==
  IF has_session(tbl)
  THEN <<[path |-> get_session_path(tbl), session |-> tbl]>>
  ELSE <<>>

\* reinitialize that saves whether or not a block is running
reinitialize_saves_always(tbl) == save_in_session_folder(tbl)

\* reinitialize, lines 150-152: the save is made when a block is running
reinitialize_saves(tbl) ==
  IF has_active_block(tbl) THEN save_in_session_folder(tbl) ELSE <<>>

(***************************************************************************)
(* The record of the last operation performed: its name, the device it     *)
(* targeted, whether it raised, the active_processes of the targeted       *)
(* records before it ran, for a detach that directly follows an attach of  *)
(* the same pid, the record of that attach, for a reinitialize that        *)
(* directly follows a reinitialize or an interrupted one, the tables it    *)
(* started from, the copies of the database file the operation wrote, and  *)
(* for an attach the description or action it was given.                   *)
(***************************************************************************)
NoLast ==
  [op |-> "none", kind |-> "none", id |-> "", pid |-> 0, pre |-> <<>>,
   err |-> FALSE, prev |-> <<>>, saves |-> <<>>, arg |-> ""]

Done(op, kind, id, pid, pre, err) ==
  [op |-> op, kind |-> kind, id |-> id, pid |-> pid, pre |-> pre, err |-> err,
   prev |-> IF /\ op \in {"remove_active_process_rpi", "remove_local_process"}
               /\ last.op \in {"add_active_process_rpi", "add_tis_cam_process"}
               /\ last.kind = kind /\ last.pid = pid
            THEN <<[op |-> last.op, id |-> last.id, pre |-> last.pre]>>
            ELSE IF /\ op = "reinitialize"
                    /\ \/ last.op = "interrupted"
                       \/ last.op = "reinitialize" /\ ~last.err
            THEN <<[op |-> last.op, id |-> last.id,
                    pre |-> <<session, rpi, cams>>]>>
            ELSE <<>>,
   saves |-> <<>>, arg |-> ""]

SessionDone(op, err) == Done(op, "session", "", 0, <<>>, err)

SessionSaved(op, saves) == [SessionDone(op, FALSE) EXCEPT !.saves = saves]


(***************************************************************************)
(* Strings that the code takes apart are sequences of characters.          *)
(***************************************************************************)
StateFileSuffix == <<"_", "s", "t", "a", "t", "e", "_", "f", "i", "l", "e">>

\* str.endswith(suffix)
EndsWith(str, suffix) ==
  /\ Len(str) >= Len(suffix)
  /\ SubSeq(str, Len(str) - Len(suffix) + 1, Len(str)) = suffix

\* str.rstrip(chars): drop trailing characters as long as they belong to
\* the set of characters of chars
RECURSIVE RStrip(_, _)
RStrip(str, chars) ==
  IF Len(str) > 0 /\ str[Len(str)] \in Range(chars)
  THEN RStrip(SubSeq(str, 1, Len(str) - 1), chars)
  ELSE str

(***************************************************************************)
(* tis_camera_win/__init__.py.  A path is modelled by its file name: the   *)
(* folder is the configured saving_path in every call.                     *)
(***************************************************************************)
state_file_from_cam_name(cam_name) == cam_name \o StateFileSuffix

cam_name_from_state_file(state_file) == RStrip(state_file, StateFileSuffix)

is_stored_state_file(file_name) == EndsWith(file_name, StateFileSuffix)

\* Camera names used in the model, and a file that is not a state file
CamB == <<"b">>
CamC == <<"c">>
CamCE == <<"c", "e">>
UploadNames == {CamC, CamCE}
CamNames == {CamB, CamC, CamCE}
OtherFile == <<"n", "o", "t", "e", "s">>
LedgerCams == {CamB, CamC}
InitFolder ==
  {state_file_from_cam_name(CamB), state_file_from_cam_name(CamC), OtherFile}

(***************************************************************************)
(* Python dicts and their JSON form.  The stored active_processes is a     *)
(* JSON object: a function from strings to descriptors.  In memory a dict  *)
(* may also hold int keys; json.dumps writes an int key as its decimal     *)
(* string and json.loads keeps the last of two equal keys.                 *)
(***************************************************************************)
IsEmptyDict(d) == DOMAIN d = {}

Restrict(d, keys) == IF keys = {} THEN EmptyDict ELSE [k \in keys |-> d[k]]

\* The dict read from the file: only str keys
Loaded(d) == [str |-> d, int |-> EmptyDict]

\* dict.update(other) where other has the str keys os and the int keys oi
PyDictUpdate(d, os, oi) ==
  [str |-> IF DOMAIN os = {} THEN d.str ELSE os @@ d.str,
   int |-> IF DOMAIN oi = {} THEN d.int ELSE oi @@ d.int]

\* json.dumps then json.loads: the int keys were added after the str keys
\* were loaded, so they come last in the file and win
JsonRoundTrip(d) ==
  LET intKeys == {ToString(i) : i \in DOMAIN d.int}
      FromInt(k) == d.int[CHOOSE i \in DOMAIN d.int : ToString(i) = k]
  IN  Restrict([k \in DOMAIN d.str \cup intKeys |->
                  IF k \in intKeys THEN FromInt(k) ELSE d.str[k]],
               DOMAIN d.str \cup intKeys)

(***************************************************************************)
(* The transforms handed to Table.update (database.py, lines 59-100).      *)
(***************************************************************************)
\* update_dict(key_to_target, update_value) with a str-keyed update_value
update_dict(doc, key_to_target, update_value) ==
  [doc EXCEPT ![key_to_target] =
     JsonRoundTrip(PyDictUpdate(Loaded(@), update_value, EmptyDict))]

\* update_dict with an int-keyed update_value in which a stored str key
\* keeps its entry
update_dict_int_keeps(doc, key_to_target, update_value) ==
  [doc EXCEPT ![key_to_target] =
     @ @@ JsonRoundTrip(PyDictUpdate(Loaded(@), EmptyDict, update_value))]

\* update_dict(key_to_target, update_value) with an int-keyed update_value
update_dict_int(doc, key_to_target, update_value) ==
  [doc EXCEPT ![key_to_target] =
     JsonRoundTrip(PyDictUpdate(Loaded(@), EmptyDict, update_value))]

\* pop_element that pops nothing (the int pid is not a key of the stored dict)
pop_element_int_key(doc, key_to_target, key_to_pop) == doc

\* pop_element(key_to_target, key_to_pop): the KeyError of dict.pop is caught
pop_element(doc, key_to_target, key_to_pop) ==
  IF Has(doc, key_to_target) /\ key_to_pop \in DOMAIN doc[key_to_target]
  THEN [doc EXCEPT ![key_to_target] = Restrict(@, DOMAIN @ \ {key_to_pop})]
  ELSE doc

\* pop_element without its try / except: the KeyError of an absent key escapes
pop_element_uncaught(doc, key_to_target, key_to_pop) ==
  ~(Has(doc, key_to_target) /\ key_to_pop \in DOMAIN doc[key_to_target])

\* Whether the transform of pop_element lets an exception escape: never,
\* "except KeyError: pass" covers the absent key
pop_element_raises(doc, key_to_target, key_to_pop) == FALSE

\* clear_dict that clears a copy and returns the document as it was
clear_dict_copy(doc, key_to_target) == doc

\* clear_dict(key_to_target)
clear_dict(doc, key_to_target) ==
  IF Has(doc, key_to_target)
  THEN [doc EXCEPT ![key_to_target] = EmptyDict]
  ELSE (key_to_target :> EmptyDict) @@ doc


(***************************************************************************)
(* Process handling and device tables (database.py, lines 229-395).        *)
(***************************************************************************)
PidKey(pid) == ToString(pid)

\* Elem.active_processes.test(lambda x: str(pid) in x)
HasSelectedPid(pid) == Where("active_processes", "has_key", PidKey(pid))

\* where("active_processes") == {} and where("active_processes") != {}
NoActiveProcess == Where("active_processes", "eq", EmptyDict)

SomeActiveProcess == Where("active_processes", "ne", EmptyDict)

IsRpi(rpi_type) == Where("rpi_type", "eq", rpi_type)

IsCam(cam_name) == Where("cam_name", "eq", cam_name)

remove_local_process_from_table(tbl, pid) ==
  TableUpdate(tbl,
    [i \in DOMAIN tbl |-> pop_element(tbl[i], "active_processes", PidKey(pid))],
    HasSelectedPid(pid))

\* The only table holding local processes is tis_cam_win
remove_local_process(tbl, pid) == remove_local_process_from_table(tbl, pid)

\* active_processes.update(e["active_processes"]) over the documents found,
\* in table order: a later document wins on a shared key
RECURSIVE MergeAll(_)
MergeAll(docs) ==
  IF Len(docs) = 0 THEN EmptyDict
  ELSE LET rest == MergeAll(SubSeq(docs, 1, Len(docs) - 1))
           d == docs[Len(docs)]["active_processes"]
       IN  IF IsEmptyDict(rest) THEN d ELSE d @@ rest

\* get_processes_from_table that returns the processes of the last busy device
get_processes_from_table_last(tbl) ==
  IF TableSearch(tbl, SomeActiveProcess) = <<>> THEN EmptyDict
  ELSE TableSearch(tbl, SomeActiveProcess)
         [Len(TableSearch(tbl, SomeActiveProcess))]["active_processes"]

get_processes_from_table(tbl) == MergeAll(TableSearch(tbl, SomeActiveProcess))

\* initialize_tiscamera that rewrites every camera record
initialize_tiscamera_all(tbl, state_file_path) ==
  IF is_stored_state_file(state_file_path)
  THEN TableUpsert(tbl,
                   [cam_name |-> cam_name_from_state_file(state_file_path),
                    state_file_path |-> state_file_path,
                    active_processes |-> EmptyDict],
                   Where("cam_name", "exists", TRUE))
  ELSE tbl

\* initialize_tiscamera that inserts the camera entry instead of upserting it
initialize_tiscamera_insert(tbl, state_file_path) ==
  IF is_stored_state_file(state_file_path)
  THEN TableInsert(tbl,
                   [cam_name |-> cam_name_from_state_file(state_file_path),
                    state_file_path |-> state_file_path,
                    active_processes |-> EmptyDict])
  ELSE tbl

\* initialize_tiscamera without the is_stored_state_file test
initialize_tiscamera_any_file(tbl, state_file_path) ==
  TableUpsert(tbl,
              [cam_name |-> cam_name_from_state_file(state_file_path),
               state_file_path |-> state_file_path,
               active_processes |-> EmptyDict],
              IsCam(cam_name_from_state_file(state_file_path)))

\* initialize_tiscamera(state_file_path)
initialize_tiscamera(tbl, state_file_path) ==
  IF is_stored_state_file(state_file_path)
  THEN LET cam_name == cam_name_from_state_file(state_file_path)
       IN  TableUpsert(tbl,
                       [cam_name |-> cam_name,
                        state_file_path |-> state_file_path,
                        active_processes |-> EmptyDict],
                       IsCam(cam_name))
  ELSE tbl

\* reinitialize_tis_cam_win: drop the table, then register every file of the
\* folder in the order iterdir yields them
RECURSIVE RegisterAll(_, _)
RegisterAll(tbl, files) ==
  IF Len(files) = 0 THEN tbl
  ELSE RegisterAll(initialize_tiscamera(tbl, Head(files)), Tail(files))

reinitialize_tis_cam_win(files) == RegisterAll(<<>>, files)

get_available_cameras(tbl) == TableSearch(tbl, NoActiveProcess)

\* add_tis_cam_process that updates every camera record
add_tis_cam_process_all(tbl, cam_name, action, pid) ==
  TableUpdate(tbl,
    [i \in DOMAIN tbl |->
       update_dict_int(tbl[i], "active_processes",
                       pid :> [action |-> action, pid |-> pid,
                               description |-> <<"TIS Camera ", action, " on ",
                                                 cam_name, " (pid: ", pid, ")">>])],
    Where("cam_name", "exists", TRUE))

\* add_tis_cam_process(cam_name, action, pid): the new entry has the int key
\* pid
add_tis_cam_process(tbl, cam_name, action, pid) ==
  LET new_active_process_content ==
        [action |-> action, pid |-> pid,
         description |-> <<"TIS Camera ", action, " on ", cam_name,
                           " (pid: ", pid, ")">>]
  IN  TableUpdate(tbl,
        [i \in DOMAIN tbl |->
           update_dict_int(tbl[i], "active_processes",
                           pid :> new_active_process_content)],
        IsCam(cam_name))

\* initialize_rpi_pwm: the configured pwm entry, extended and inserted
initialize_rpi_pwm(tbl) ==
  TableInsert(tbl, [rpi_type |-> "pwm", active_processes |-> EmptyDict,
                    description |-> "PWM RPI",
                    extended_description |-> "Host: pwm"])

\* reinitialize_rpi: drop_table("rpi") then initialize_rpi_pwm
reinitialize_rpi == initialize_rpi_pwm(<<>>)

get_available_rpi(tbl) == TableSearch(tbl, NoActiveProcess)

get_busy_rpi(tbl) == TableSearch(tbl, SomeActiveProcess)

add_active_process_rpi(tbl, rpi_type, pid, description) ==
  LET process_properties ==
        [pid |-> pid, action |-> rpi_type, description |-> description,
         rpi_type |-> rpi_type]
  IN  TableUpdate(tbl,
        [i \in DOMAIN tbl |->
           update_dict(tbl[i], "active_processes",
                       PidKey(pid) :> process_properties)],
        IsRpi(rpi_type))

remove_active_process_rpi(tbl, rpi_type, pid) ==
  TableUpdate(tbl,
    [i \in DOMAIN tbl |-> pop_element(tbl[i], "active_processes", PidKey(pid))],
    IsRpi(rpi_type))

remove_all_active_process_rpi(tbl, rpi_type) ==
  TableUpdate(tbl,
    [i \in DOMAIN tbl |-> clear_dict(tbl[i], "active_processes")],
    IsRpi(rpi_type))

\* Rodents and users (database.py, lines 397-419)
\* add_rodent with insert in place of upsert
add_rodent_insert(tbl, rodent_name, sensor_id) ==
  TableInsert(tbl, [rodent_name |-> rodent_name, sensor_id |-> sensor_id])

add_rodent(tbl, rodent_name, sensor_id) ==
  TableUpsert(tbl, [rodent_name |-> rodent_name, sensor_id |-> sensor_id],
              Where("rodent_name", "eq", rodent_name))

remove_rodent(tbl, rodent_name) ==
  TableRemove(tbl, Where("rodent_name", "eq", rodent_name))

add_user(tbl, user_name) ==
  TableUpsert(tbl, [user_name |-> user_name],
              Where("user_name", "eq", user_name))

remove_user(tbl, user_name) ==
  TableRemove(tbl, Where("user_name", "eq", user_name))

RodentNames == {"r1", "r2"}
SensorIds == {"s1", "s2"}
UserNames == {"u1", "u2"}

\* Inputs of the ledger operations in the model
RpiTypes == {"pwm"}
Descriptions == {"d1", "d2"}
CamActions == {"preview", "record"}

\* The active_processes of the documents of tbl matching q, in table order
ProcsOf(tbl, q) ==
  [i \in DOMAIN TableSearch(tbl, q) |-> TableSearch(tbl, q)[i]["active_processes"]]

\* Number of process entries held by a device table
RECURSIVE CountProcs(_)
CountProcs(tbl) ==
  IF Len(tbl) = 0 THEN 0
  ELSE Cardinality(DOMAIN Head(tbl)["active_processes"]) + CountProcs(Tail(tbl))

(***************************************************************************)
(* State after construction: AcquisitionDB() opens an empty file, the      *)
(* watched folder holds two state files and one unrelated file, and no      *)
(* request is in progress.                                                 *)
(***************************************************************************)
\* The storage of the database object.  TinyDB's default storage class is
\* JSONStorage; a SerializationMiddleware carries the registered encoders.
JSONStorage == [class |-> "JSONStorage", serializers |-> {}]

SerializationMiddleware ==
  [class |-> "SerializationMiddleware", serializers |-> {}]

register_serializer(st, name) == [st EXCEPT !.serializers = @ \cup {name}]

\* AcquisitionDB.__init__(**kwargs): kw is filled from kwargs before the
\* storage is put in kwargs, and TinyDB is built from kw.  A storage passed
\* by the caller is the object the encoders are registered on.
AcquisitionDB_init(kwargs) ==
  LET kw == kwargs
      serialization == IF "storage" \in DOMAIN kwargs
                       THEN kwargs["storage"]
                       ELSE SerializationMiddleware
      registered == register_serializer(
                      register_serializer(serialization, "TinyDate"),
                      "TinyPath")
  IN  IF "storage" \in DOMAIN kw THEN registered ELSE JSONStorage

\* The recorder processes (record_video_queue.py, record_video_ffmpeg.py,
\* record_video_chunks.py) before they are launched.
NoUserData ==
  [write_queue |-> <<>>, queue_counter |-> -1, written_counter |-> -1,
   video_all |-> <<>>, timeout |-> "None", time_last_frame_written |-> "None"]

NoRecorder ==
  [script |-> "", live |-> FALSE, callback |-> "idle", loop |-> "off",
   frame |-> -1]

Recorders == {1, 2}

NoChunkRecorder ==
  [pc |-> "off", autoCorrect |-> FALSE, counter |-> -1, video |-> <<>>,
   shared_frame_number |-> -1, err |-> ""]

Procs == {1, 2}

IdleReq == [pc |-> "idle", doc |-> <<>>, files |-> <<>>]

Init ==
  /\ session = <<>>
  /\ rpi = <<>>
  /\ cams = <<>>
  /\ rodents = <<>>
  /\ users = <<>>
  /\ folder = InitFolder
  /\ last = NoLast
  /\ reqs = [p \in Procs |-> IdleReq]
  /\ storage = AcquisitionDB_init(<<>>)
  /\ user_data = NoUserData
  /\ recorder = NoRecorder
  /\ chunk = [p \in Recorders |-> NoChunkRecorder]
  /\ shared_status = <<>>

(***************************************************************************)
(* Operations of AcquisitionDB, each run to completion.                    *)
(***************************************************************************)
InsertActiveBlock(doc) ==
  /\ Len(session) < MaxBlocks
  /\ session' = insert_active_block(session, doc)
  /\ last' = SessionDone("insert_active_block", FALSE)
  /\ UNCHANGED <<rpi, cams, folder, reqs, rodents, users, recVars>>

SetBlocksToInactive ==
  /\ session' = set_blocks_to_inactive(session)
  /\ last' = SessionDone("set_blocks_to_inactive", FALSE)
  /\ UNCHANGED <<rpi, cams, folder, reqs, rodents, users, recVars>>

\* reinitialize without reinitialize_session
ReinitializeKeepsSession ==
  \E files \in Orders(folder) :
    /\ rpi' = reinitialize_rpi
    /\ cams' = reinitialize_tis_cam_win(files)
    /\ last' = SessionDone("reinitialize", FALSE)
    /\ UNCHANGED <<session, folder, reqs, rodents, users, recVars>>

\* reinitialize that drops every table of the file (drop_tables)
ReinitializeDropsAll ==
  IF has_active_block(session) /\ save_in_session_folder_raises(session)
  THEN /\ last' = SessionDone("reinitialize", TRUE)
       /\ UNCHANGED <<session, rpi, cams, folder, reqs, rodents, users, recVars>>
  ELSE \E files \in Orders(folder) :
         /\ session' = <<>>
         /\ rpi' = reinitialize_rpi
         /\ cams' = reinitialize_tis_cam_win(files)
         /\ rodents' = <<>>
         /\ users' = <<>>
         /\ last' = SessionSaved("reinitialize", reinitialize_saves(session))
         /\ UNCHANGED <<folder, reqs, recVars>>

\* reinitialize whose rpi step inserts without dropping the table first
ReinitializeAppendsRpi ==
  IF has_active_block(session) /\ save_in_session_folder_raises(session)
  THEN /\ last' = SessionDone("reinitialize", TRUE)
       /\ UNCHANGED <<session, rpi, cams, folder, reqs, rodents, users, recVars>>
  ELSE \E files \in Orders(folder) :
         /\ session' = <<>>
         /\ rpi' = initialize_rpi_pwm(rpi)
         /\ cams' = reinitialize_tis_cam_win(files)
         /\ last' = SessionSaved("reinitialize", reinitialize_saves(session))
         /\ UNCHANGED <<folder, reqs, rodents, users, recVars>>

\* reinitialize: save when a block is running (this may raise, and then
\* nothing has been changed yet), drop the session, rebuild rpi and the
\* cameras
Reinitialize ==
  IF has_active_block(session) /\ save_in_session_folder_raises(session)
  THEN /\ last' = SessionDone("reinitialize", TRUE)
       /\ UNCHANGED <<session, rpi, cams, folder, reqs, rodents, users, recVars>>
  ELSE \E files \in Orders(folder) :
         /\ session' = <<>>
         /\ rpi' = reinitialize_rpi
         /\ cams' = reinitialize_tis_cam_win(files)
         /\ last' = SessionSaved("reinitialize", reinitialize_saves(session))
         /\ UNCHANGED <<folder, reqs, rodents, users, recVars>>

ReinitializeRpi ==
  /\ rpi' = reinitialize_rpi
  /\ last' = Done("reinitialize_rpi", "registry", "", 0, <<>>, FALSE)
  /\ UNCHANGED <<session, cams, folder, reqs, rodents, users, recVars>>

InitializeRpiPwm ==
  /\ Len(rpi) < MaxRpi
  /\ rpi' = initialize_rpi_pwm(rpi)
  /\ last' = Done("initialize_rpi_pwm", "registry", "", 0, <<>>, FALSE)
  /\ UNCHANGED <<session, cams, folder, reqs, rodents, users, recVars>>

InitializeTiscamera(state_file_path) ==
  /\ cams' = initialize_tiscamera(cams, state_file_path)
  /\ last' = Done("initialize_tiscamera", "registry", state_file_path, 0, <<>>,
                  FALSE)
  /\ UNCHANGED <<session, rpi, folder, reqs, rodents, users, recVars>>

\* tis_cam_windows_upload: save the file under the name derived from
\* cam_name, then register it
TisCamWindowsUpload(cam_name) ==
  LET file_name == state_file_from_cam_name(cam_name)
  IN  /\ folder' = folder \cup {file_name}
      /\ cams' = initialize_tiscamera(cams, file_name)
      /\ last' = Done("tis_cam_windows_upload", "registry", cam_name, 0, <<>>,
                      FALSE)
      /\ UNCHANGED <<session, rpi, reqs, rodents, users, recVars>>

\* An attach is taken only while the ledger holds fewer than MaxProcs
\* entries, or when it overwrites an entry
RoomFor(tbl, q, pid) ==
  \/ CountProcs(rpi) + CountProcs(cams) < MaxProcs
  \/ Matching(tbl, q) \subseteq Matching(tbl, HasSelectedPid(pid))

AddActiveProcessRpi(rpi_type, pid, description) ==
  /\ RoomFor(rpi, IsRpi(rpi_type), pid)
  /\ rpi' = add_active_process_rpi(rpi, rpi_type, pid, description)
  /\ last' = [Done("add_active_process_rpi", "rpi", rpi_type, pid,
                   ProcsOf(rpi, IsRpi(rpi_type)), FALSE)
                EXCEPT !.arg = description]
  /\ UNCHANGED <<session, cams, folder, reqs, rodents, users, recVars>>

RemoveActiveProcessRpi(rpi_type, pid) ==
  LET raises == \E i \in Matching(rpi, IsRpi(rpi_type)) :
                  pop_element_raises(rpi[i], "active_processes", PidKey(pid))
  IN  /\ rpi' = IF raises THEN rpi
                ELSE remove_active_process_rpi(rpi, rpi_type, pid)
      /\ last' = Done("remove_active_process_rpi", "rpi", rpi_type, pid,
                      ProcsOf(rpi, IsRpi(rpi_type)), raises)
      /\ UNCHANGED <<session, cams, folder, reqs, rodents, users, recVars>>

RemoveAllActiveProcessRpi(rpi_type) ==
  /\ rpi' = remove_all_active_process_rpi(rpi, rpi_type)
  /\ last' = Done("remove_all_active_process_rpi", "rpi", rpi_type, 0,
                  ProcsOf(rpi, IsRpi(rpi_type)), FALSE)
  /\ UNCHANGED <<session, cams, folder, reqs, rodents, users, recVars>>

AddTisCamProcess(cam_name, action, pid) ==
  /\ RoomFor(cams, IsCam(cam_name), pid)
  /\ cams' = add_tis_cam_process(cams, cam_name, action, pid)
  /\ last' = [Done("add_tis_cam_process", "cam", cam_name, pid,
                   ProcsOf(cams, IsCam(cam_name)), FALSE)
                EXCEPT !.arg = action]
  /\ UNCHANGED <<session, rpi, folder, reqs, rodents, users, recVars>>

\* remove_local_process looping over the rpi table as well
RemoveLocalProcessEverywhere(pid) ==
  /\ cams' = remove_local_process(cams, pid)
  /\ rpi' = remove_local_process_from_table(rpi, pid)
  /\ last' = Done("remove_local_process", "cam", <<>>, pid,
                  ProcsOf(cams, Where("cam_name", "exists", TRUE)), FALSE)
  /\ UNCHANGED <<session, folder, reqs, rodents, users, recVars>>

RemoveLocalProcess(pid) ==
  LET raises == \E i \in Matching(cams, HasSelectedPid(pid)) :
                  pop_element_raises(cams[i], "active_processes", PidKey(pid))
  IN  /\ cams' = IF raises THEN cams ELSE remove_local_process(cams, pid)
      /\ last' = Done("remove_local_process", "cam", <<>>, pid,
                      ProcsOf(cams, Where("cam_name", "exists", TRUE)), raises)
      /\ UNCHANGED <<session, rpi, folder, reqs, rodents, users, recVars>>

AddRodent(rodent_name, sensor_id) ==
  /\ rodents' = add_rodent(rodents, rodent_name, sensor_id)
  /\ last' = Done("add_rodent", "people", rodent_name, 0,
                  <<rodents, users, sensor_id>>, FALSE)
  /\ UNCHANGED <<session, rpi, cams, users, folder, reqs, recVars>>

RemoveRodent(rodent_name) ==
  /\ rodents' = remove_rodent(rodents, rodent_name)
  /\ last' = Done("remove_rodent", "people", rodent_name, 0,
                  <<rodents, users, "">>, FALSE)
  /\ UNCHANGED <<session, rpi, cams, users, folder, reqs, recVars>>

AddUser(user_name) ==
  /\ users' = add_user(users, user_name)
  /\ last' = Done("add_user", "people", user_name, 0,
                  <<rodents, users, "">>, FALSE)
  /\ UNCHANGED <<session, rpi, cams, rodents, folder, reqs, recVars>>

RemoveUser(user_name) ==
  /\ users' = remove_user(users, user_name)
  /\ last' = Done("remove_user", "people", user_name, 0,
                  <<rodents, users, "">>, FALSE)
  /\ UNCHANGED <<session, rpi, cams, rodents, folder, reqs, recVars>>

(***************************************************************************)
(* Specifications.                                                         *)
(***************************************************************************)
NextSession ==
  \/ \E doc \in BlockInputs : InsertActiveBlock(doc)
  \/ SetBlocksToInactive
  \/ Reinitialize

SpecSession == Init /\ [][NextSession]_vars

\* The process ledger on the devices found by reinitialize
NextLedger ==
  \/ Reinitialize
  \/ \E t \in RpiTypes, p \in Pids, d \in Descriptions : AddActiveProcessRpi(t, p, d)
  \/ \E t \in RpiTypes, p \in Pids : RemoveActiveProcessRpi(t, p)
  \/ \E t \in RpiTypes : RemoveAllActiveProcessRpi(t)
  \/ \E c \in LedgerCams, a \in CamActions, p \in Pids : AddTisCamProcess(c, a, p)
  \/ \E p \in Pids : RemoveLocalProcess(p)

SpecLedger == Init /\ [][NextLedger]_vars

\* The device registry: discovery, registration and upload, with one
\* session block and one process per device to be reinitialized away
NextRegistry ==
  \/ /\ Len(session) < MaxLedgerBlocks
     /\ InsertActiveBlock(BlockDoc(Format02d(1), "true"))
  \/ Reinitialize
  \/ ReinitializeRpi
  \/ InitializeRpiPwm
  \/ \E f \in folder : InitializeTiscamera(f)
  \/ \E n \in UploadNames : TisCamWindowsUpload(n)
  \/ AddActiveProcessRpi("pwm", 1, "d1")
  \/ RemoveActiveProcessRpi("pwm", 1)
  \/ \E c \in LedgerCams : AddTisCamProcess(c, "record", 1)
  \/ RemoveLocalProcess(1)

SpecRegistry == Init /\ [][NextRegistry]_vars


\* insert_active_block from any stored session of at most MaxStart blocks
MaxStart == 2

AnySession ==
  UNION {[1..n -> BlockInputs] : n \in 0..MaxStart}

InitAnySession ==
  /\ session \in AnySession
  /\ rpi = <<>>
  /\ cams = <<>>
  /\ rodents = <<>>
  /\ users = <<>>
  /\ folder = InitFolder
  /\ last = NoLast
  /\ reqs = [p \in Procs |-> IdleReq]
  /\ storage = AcquisitionDB_init(<<>>)
  /\ user_data = NoUserData
  /\ recorder = NoRecorder
  /\ chunk = [p \in Recorders |-> NoChunkRecorder]
  /\ shared_status = <<>>

NextInsert == \E doc \in BlockInputs : InsertActiveBlock(doc)

SpecAnySession == InitAnySession /\ [][NextInsert]_vars

(***************************************************************************)
(* Properties of the session table.                                        *)
(***************************************************************************)
InsertedLast == last.op = "insert_active_block" /\ ~last.err

\* C1: after each insert_active_block call, whatever the session it started
\* from, at most one block of the session has running = true.
AtMostOneRunningAfterInsert ==
  InsertedLast => Cardinality(Matching(session, IsRunning)) <= 1

\* An insert has put a running block after a block it had to deactivate
AtMostOneRunningWitness ==
  /\ InsertedLast
  /\ Len(session) >= 2
  /\ Matching(session, IsRunning) = {Len(session)}
  /\ \E i \in 1..(Len(session) - 1) :
       Has(session[i], "running") /\ session[i]["running"] = FALSE

InsertedBlockIsRunning ==
  InsertedLast =>
    /\ Eval(session[Len(session)], IsRunning)
    /\ has_active_block(session)


(***************************************************************************)
(* The block-creating request handlers of main.py, one store operation per *)
(* step: reqs[p] holds the position of request p, the block content it has *)
(* built and the state files reinitialize has still to register.           *)
(* The handlers are coroutines that never await, so one event loop serves  *)
(* them one after another; the steps interleave as below when the requests *)
(* are served by several workers on the same database file, which          *)
(* AcquisitionDB opens without a lock and re-reads at every operation.     *)
(***************************************************************************)
SessionFields ==
  {"date", "data_folder", "user_name", "rodent_name", "session_folder",
   "session_notes", "session_path"}

\* get_session_properties: raises when block "01" is absent or lacks a field
get_session_properties_raises(tbl) ==
  \/ TableGet(tbl, IsFirstBlock) = <<>>
  \/ ~(SessionFields \subseteq DOMAIN TableGet(tbl, IsFirstBlock)[1])

get_session_properties(tbl) ==
  [k \in SessionFields |-> TableGet(tbl, IsFirstBlock)[1][k]]

\* create_new_session: create_default_block() updated with the form fields
\* and the two paths built from them
session_block_content(form) ==
  [user_name |-> form.user_name, rodent_name |-> form.rodent_name,
   data_folder |-> form.data_folder,
   session_folder |-> form.session_folder,
   session_notes |-> form.session_notes,
   block_folder |-> form.block_folder,
   block_notes |-> form.block_notes,
   session_path |-> <<form.data_folder, form.session_folder>>,
   block_path |-> <<form.data_folder, form.session_folder, form.block_folder>>]
  @@ create_default_block(Format02d(1), form.now)

\* create_new_block: {**session_properties, **block_properties} updated with
\* the form fields and the block path
new_block_content(tbl, form, block_id) ==
  LET block_content ==
        create_default_block(block_id, form.now) @@ get_session_properties(tbl)
  IN  [block_folder |-> form.block_folder,
       block_notes |-> form.block_notes,
       block_path |-> Append(block_content["session_path"], form.block_folder)]
      @@ block_content

Goto(p, pc, doc, files) ==
  reqs' = [reqs EXCEPT ![p] = [pc |-> pc, doc |-> doc, files |-> files]]

InFlight == Cardinality({p \in Procs : reqs[p].pc # "idle"})

\* create_new_session, up to the first store operation of reinitialize: the
\* form fields are kept to build the block after reinitialize
StartNewSession(p, form) ==
  /\ reqs[p].pc = "idle"
  /\ Len(session) + InFlight < MaxBlocks
  /\ Goto(p, "has_active_block", form, <<>>)
  /\ UNCHANGED <<session, rpi, cams, folder, last, rodents, users, recVars>>

\* reinitialize: self.has_active_block()
ReHasActiveBlock(p) ==
  /\ reqs[p].pc = "has_active_block"
  /\ Goto(p, IF has_active_block(session) THEN "save" ELSE "drop_session",
          reqs[p].doc, <<>>)
  /\ UNCHANGED <<session, rpi, cams, folder, last, rodents, users, recVars>>

\* reinitialize: save_in_session_folder(); a raise ends the request
ReSave(p) ==
  /\ reqs[p].pc = "save"
  /\ IF save_in_session_folder_raises(session)
     THEN /\ Goto(p, "idle", <<>>, <<>>)
          /\ last' = SessionDone("create_new_session", TRUE)
     ELSE /\ Goto(p, "drop_session", reqs[p].doc, <<>>)
          /\ UNCHANGED last
  /\ UNCHANGED <<session, rpi, cams, folder, rodents, users, recVars>>

\* reinitialize_session: drop_table("session")
ReDropSession(p) ==
  /\ reqs[p].pc = "drop_session"
  /\ session' = <<>>
  /\ Goto(p, "drop_rpi", reqs[p].doc, <<>>)
  /\ UNCHANGED <<rpi, cams, folder, last, rodents, users, recVars>>

\* reinitialize_rpi: drop_table("rpi")
ReDropRpi(p) ==
  /\ reqs[p].pc = "drop_rpi"
  /\ rpi' = <<>>
  /\ Goto(p, "insert_rpi", reqs[p].doc, <<>>)
  /\ UNCHANGED <<session, cams, folder, last, rodents, users, recVars>>

\* reinitialize_rpi: initialize_rpi_pwm()
ReInsertRpi(p) ==
  /\ reqs[p].pc = "insert_rpi"
  /\ rpi' = initialize_rpi_pwm(rpi)
  /\ Goto(p, "drop_cams", reqs[p].doc, <<>>)
  /\ UNCHANGED <<session, cams, folder, last, rodents, users, recVars>>

\* reinitialize_tis_cam_win: drop_table("tis_cam_win") and list the folder
ReDropCams(p) ==
  /\ reqs[p].pc = "drop_cams"
  /\ cams' = <<>>
  /\ \E files \in Orders(folder) : Goto(p, "register", reqs[p].doc, files)
  /\ UNCHANGED <<session, rpi, folder, last, rodents, users, recVars>>

\* reinitialize_tis_cam_win: initialize_tiscamera(state_file_path) for the
\* next file; after the last one create_new_session builds its block
ReRegister(p) ==
  /\ reqs[p].pc = "register"
  /\ IF reqs[p].files = <<>>
     THEN /\ Goto(p, "has_session", session_block_content(reqs[p].doc), <<>>)
          /\ UNCHANGED cams
     ELSE /\ cams' = initialize_tiscamera(cams, Head(reqs[p].files))
          /\ Goto(p, "register", reqs[p].doc, Tail(reqs[p].files))
  /\ UNCHANGED <<session, rpi, folder, last, rodents, users, recVars>>

\* create_new_block: block_id from len(db.session_table)
StartNewBlock(p, form) ==
  /\ reqs[p].pc = "idle"
  /\ Len(session) + InFlight < MaxBlocks
  /\ Goto(p, "get_session_properties",
          [block_id |-> Format02d(Len(session) + 1)] @@ form, <<>>)
  /\ UNCHANGED <<session, rpi, cams, folder, last, rodents, users, recVars>>

\* create_new_block: get_session_properties(), then the block content; a
\* raise ends the request
NewBlockProperties(p) ==
  /\ reqs[p].pc = "get_session_properties"
  /\ IF get_session_properties_raises(session)
     THEN /\ Goto(p, "idle", <<>>, <<>>)
          /\ last' = SessionDone("create_new_block", TRUE)
     ELSE /\ Goto(p, "has_session",
                  new_block_content(session, reqs[p].doc, reqs[p].doc.block_id),
                  <<>>)
          /\ UNCHANGED last
  /\ UNCHANGED <<session, rpi, cams, folder, rodents, users, recVars>>

\* insert_active_block: set_blocks_to_inactive reads has_session()
InsHasSession(p) ==
  /\ reqs[p].pc = "has_session"
  /\ Goto(p, IF has_session(session) THEN "upsert" ELSE "insert",
          reqs[p].doc, <<>>)
  /\ UNCHANGED <<session, rpi, cams, folder, last, rodents, users, recVars>>

\* insert_active_block: set_blocks_to_inactive upserts {"running": False}
InsUpsert(p) ==
  /\ reqs[p].pc = "upsert"
  /\ session' = TableUpsert(session, [running |-> FALSE],
                            Where("running", "exists", TRUE))
  /\ Goto(p, "insert", reqs[p].doc, <<>>)
  /\ UNCHANGED <<rpi, cams, folder, last, rodents, users, recVars>>

\* The insert of a request that gives up when a stored block has its id
InsInsertUnique(p) ==
  /\ reqs[p].pc = "insert"
  /\ session' =
       IF Matching(session, Where("block_id", "eq", reqs[p].doc["block_id"])) = {}
       THEN TableInsert(session, reqs[p].doc)
       ELSE session
  /\ Goto(p, "idle", <<>>, <<>>)
  /\ last' = SessionDone("create_new_block", FALSE)
  /\ UNCHANGED <<rpi, cams, folder, rodents, users, recVars>>

\* insert_active_block: session_table.insert(block_content); the request
\* is served
InsInsert(p) ==
  /\ reqs[p].pc = "insert"
  /\ session' = TableInsert(session, reqs[p].doc)
  /\ Goto(p, "idle", <<>>, <<>>)
  /\ last' = SessionDone(IF reqs[p].doc["block_id"] = Format02d(1)
                         THEN "create_new_session" ELSE "create_new_block",
                         FALSE)
  /\ UNCHANGED <<rpi, cams, folder, rodents, users, recVars>>

\* The fields posted by the forms, and the clock read by the handler
SessionForms ==
  {[user_name |-> "u", rodent_name |-> "r", data_folder |-> "data",
    session_folder |-> "s", session_notes |-> "", block_folder |-> "b1",
    block_notes |-> "", now |-> 1]}

BlockForms ==
  {[block_folder |-> "b2", block_notes |-> n, now |-> 1] : n \in {"", "note"}}

RequestStep(p) ==
  \/ \E form \in SessionForms : StartNewSession(p, form)
  \/ ReHasActiveBlock(p)
  \/ ReSave(p)
  \/ ReDropSession(p)
  \/ ReDropRpi(p)
  \/ ReInsertRpi(p)
  \/ ReDropCams(p)
  \/ ReRegister(p)
  \/ \E form \in BlockForms : StartNewBlock(p, form)
  \/ NewBlockProperties(p)
  \/ InsHasSession(p)
  \/ InsUpsert(p)
  \/ InsInsert(p)

\* Requests interleaved at the granularity of store operations
NextConc == \E p \in Procs : RequestStep(p)

SpecConc == Init /\ [][NextConc]_vars

\* C2: at most one block has running = true in every reachable state, also
\* when block-creating requests interleave between store operations.
AtMostOneRunningAlways == Cardinality(Matching(session, IsRunning)) <= 1


(***************************************************************************)
(* Properties of the device registry and of the process ledger.            *)
(***************************************************************************)
StoredStateFiles == {f \in folder : is_stored_state_file(f)}

\* C5: after reinitialize() completes, has_session() is false and the camera
\* table holds exactly one record per discovered state file, each with an
\* empty active_processes, so get_available_cameras returns all of them.
ReinitializeRebuildsCameras ==
  (last.op = "reinitialize" /\ ~last.err) =>
    /\ ~has_session(session)
    /\ Len(cams) = Cardinality(StoredStateFiles)
    /\ {cams[i]["state_file_path"] : i \in DOMAIN cams} = StoredStateFiles
    /\ \A i \in DOMAIN cams : IsEmptyDict(cams[i]["active_processes"])
    /\ get_available_cameras(cams) = cams

AttachThenDetach ==
  /\ ~last.err
  /\ last.prev # <<>>
  /\ \/ /\ last.op = "remove_active_process_rpi"
        /\ last.prev[1].op = "add_active_process_rpi"
        /\ last.prev[1].id = last.id
     \/ /\ last.op = "remove_local_process"
        /\ last.prev[1].op = "add_tis_cam_process"

\* The active_processes of the device of the attach, as they are now
AttachedDeviceProcs ==
  IF last.kind = "rpi" THEN ProcsOf(rpi, IsRpi(last.prev[1].id))
  ELSE ProcsOf(cams, IsCam(last.prev[1].id))

\* C6 as stated: an attach followed by the detach of the same pid on the same
\* device leaves active_processes as it was before the attach, whatever it
\* held before.
RoundTripRestoresAlways ==
  AttachThenDetach => AttachedDeviceProcs = last.prev[1].pre

\* C6 amended: an attach followed by the detach of the same pid on the same
\* device leaves active_processes as it was before the attach, provided it
\* held no entry for that pid before the attach.
RoundTripRestoresFreshPid ==
  (/\ AttachThenDetach
   /\ \A i \in DOMAIN last.prev[1].pre :
        PidKey(last.pid) \notin DOMAIN last.prev[1].pre[i])
    => AttachedDeviceProcs = last.prev[1].pre

\* A pid was attached to and detached from a device that keeps another entry
RoundTripWitness ==
  /\ AttachThenDetach
  /\ Len(last.prev[1].pre) = 1
  /\ PidKey(last.pid) \notin DOMAIN last.prev[1].pre[1]
  /\ ~IsEmptyDict(last.prev[1].pre[1])
  /\ AttachedDeviceProcs = last.prev[1].pre

\* C7: the detach of a pid that the targeted device does not hold raises no
\* error and changes no record of any table.
DetachAbsentIsNoop ==
  [][(\/ /\ last'.op = "remove_active_process_rpi"
         /\ Matching(rpi, IsRpi(last'.id))
              \cap Matching(rpi, HasSelectedPid(last'.pid)) = {}
      \/ /\ last'.op = "remove_local_process"
         /\ Matching(cams, HasSelectedPid(last'.pid)) = {})
     => (~last'.err /\ session' = session /\ rpi' = rpi /\ cams' = cams)]_vars

\* A pid was detached from a device that holds only another pid
DetachAbsentWitness ==
  /\ last.op \in {"remove_active_process_rpi", "remove_local_process"}
  /\ ~last.err
  /\ \E i \in DOMAIN last.pre :
       /\ ~IsEmptyDict(last.pre[i])
       /\ PidKey(last.pid) \notin DOMAIN last.pre[i]
  /\ \A i \in DOMAIN last.pre : PidKey(last.pid) \notin DOMAIN last.pre[i]

\* The union of the active_processes of the documents of a table
IsUnionOfProcs(agg, tbl) ==
  /\ DOMAIN agg = UNION {DOMAIN tbl[i]["active_processes"] : i \in DOMAIN tbl}
  /\ \A k \in DOMAIN agg :
       \E i \in DOMAIN tbl :
         /\ k \in DOMAIN tbl[i]["active_processes"]
         /\ tbl[i]["active_processes"][k] = agg[k]

\* C8: get_processes_from_table returns the union of the active_processes of
\* the devices of a table; attaching distinct pids p and q to two cameras A
\* and B of an idle table gives exactly the entries of p and q, in whichever
\* order the two attaches are made.
AggregateIsUnion ==
  /\ IsUnionOfProcs(get_processes_from_table(rpi), rpi)
  /\ IsUnionOfProcs(get_processes_from_table(cams), cams)
  /\ get_processes_from_table(cams) = EmptyDict =>
       \A A, B \in LedgerCams, p, q \in Pids, a, b \in CamActions :
         (/\ A # B /\ p # q
          /\ Matching(cams, IsCam(A)) # {} /\ Matching(cams, IsCam(B)) # {})
         => LET AB == add_tis_cam_process(add_tis_cam_process(cams, A, a, p), B, b, q)
                BA == add_tis_cam_process(add_tis_cam_process(cams, B, b, q), A, a, p)
                agg == get_processes_from_table(AB)
            IN  /\ agg = get_processes_from_table(BA)
                /\ DOMAIN agg = {PidKey(p), PidKey(q)}
                /\ agg[PidKey(p)].pid = p /\ agg[PidKey(p)].action = a
                /\ agg[PidKey(q)].pid = q /\ agg[PidKey(q)].action = b

\* Two cameras hold one pid each and the aggregate has both entries
AggregateWitness ==
  /\ last.op = "add_tis_cam_process"
  /\ Len(cams) = 2
  /\ \E p, q \in Pids :
       /\ p # q
       /\ DOMAIN cams[1]["active_processes"] = {PidKey(p)}
       /\ DOMAIN cams[2]["active_processes"] = {PidKey(q)}
       /\ DOMAIN get_processes_from_table(cams) = {PidKey(p), PidKey(q)}

\* C9: every rpi record is returned by exactly one of get_available_rpi and
\* get_busy_rpi, by get_available_rpi iff its active_processes is empty; the
\* device is busy after an attach and available after
\* remove_all_active_process_rpi.
AvailableXorBusy ==
  /\ \A i \in DOMAIN rpi :
       /\ (rpi[i] \in Range(get_available_rpi(rpi)))
            # (rpi[i] \in Range(get_busy_rpi(rpi)))
       /\ (rpi[i] \in Range(get_available_rpi(rpi)))
            <=> IsEmptyDict(rpi[i]["active_processes"])
  /\ Len(get_available_rpi(rpi)) + Len(get_busy_rpi(rpi)) = Len(rpi)
  /\ last.op = "add_active_process_rpi" =>
       \A i \in Matching(rpi, IsRpi(last.id)) : rpi[i] \in Range(get_busy_rpi(rpi))
  /\ last.op = "remove_all_active_process_rpi" =>
       \A i \in Matching(rpi, IsRpi(last.id)) :
         rpi[i] \in Range(get_available_rpi(rpi))

\* remove_all_active_process_rpi has made a busy device available again
AvailableAgainWitness ==
  /\ last.op = "remove_all_active_process_rpi"
  /\ Len(last.pre) = 1
  /\ ~IsEmptyDict(last.pre[1])
  /\ get_available_rpi(rpi) = rpi
  /\ Len(rpi) = 1

\* C10: no two records of the camera table share a cam_name and no two
\* records of the rpi table share an rpi_type.
UniqueIdentities ==
  /\ \A i, j \in DOMAIN cams :
       cams[i]["cam_name"] = cams[j]["cam_name"] => i = j
  /\ \A i, j \in DOMAIN rpi :
       rpi[i]["rpi_type"] = rpi[j]["rpi_type"] => i = j



(***************************************************************************)
(* Properties of camera registration.                                      *)
(***************************************************************************)
\* C11: the state file named after a camera gives the name of the camera
\* back, so after an upload for camera n the camera table has a record with
\* cam_name n for the file of n, and the files of two cameras give two names.
UploadRecoversCamName ==
  /\ last.op = "tis_cam_windows_upload" =>
       \E i \in DOMAIN cams :
         /\ cams[i]["cam_name"] = last.id
         /\ cams[i]["state_file_path"] = state_file_from_cam_name(last.id)
  /\ \A f, g \in folder :
       (is_stored_state_file(f) /\ is_stored_state_file(g) /\ f # g)
       => cam_name_from_state_file(f) # cam_name_from_state_file(g)

\* The state file registered by the last call, when it was a registration
RegisteredFile ==
  IF last.op = "tis_cam_windows_upload" THEN state_file_from_cam_name(last.id)
  ELSE last.id

RegisteredLast ==
  /\ last.op \in {"initialize_tiscamera", "tis_cam_windows_upload"}
  /\ is_stored_state_file(RegisteredFile)

\* C12: once a state file has been registered, registering it again leaves
\* the camera table as it is, with one record for the camera of the file,
\* holding the file and an empty active_processes.
RegisterTwiceIsOnce ==
  RegisteredLast =>
    /\ initialize_tiscamera(cams, RegisteredFile) = cams
    /\ \E i \in DOMAIN cams :
         /\ Matching(cams, IsCam(cam_name_from_state_file(RegisteredFile))) = {i}
         /\ cams[i]["state_file_path"] = RegisteredFile
         /\ IsEmptyDict(cams[i]["active_processes"])

\* A state file was registered in a table that holds another camera too
RegisterTwiceWitness ==
  /\ RegisteredLast
  /\ Len(cams) >= 2
  /\ initialize_tiscamera(cams, RegisteredFile) = cams

(***************************************************************************)
(* Lifetime of a process entry: every operation of the store next to the   *)
(* attach and detach operations.                                           *)
(***************************************************************************)
NextLifetime ==
  \/ \E id \in BlockIds :
       Len(session) < MaxLedgerBlocks /\ InsertActiveBlock(BlockDoc(id, "true"))
  \/ SetBlocksToInactive
  \/ Reinitialize
  \/ ReinitializeRpi
  \/ \E f \in folder : InitializeTiscamera(f)
  \/ TisCamWindowsUpload(CamC)
  \/ AddActiveProcessRpi("pwm", 1, "d1")
  \/ RemoveActiveProcessRpi("pwm", 1)
  \/ RemoveAllActiveProcessRpi("pwm")
  \/ \E c \in LedgerCams : AddTisCamProcess(c, "record", 1)
  \/ RemoveLocalProcess(1)
  \/ AddRodent("r1", "s1")
  \/ RemoveRodent("r1")
  \/ AddUser("u1")
  \/ RemoveUser("u1")

SpecLifetime == Init /\ [][NextLifetime]_vars

\* The entry of key k of rpi record i, or of camera record i, is still there
\* after the step
RpiEntryKept(i, k) ==
  i \in DOMAIN rpi' /\ k \in DOMAIN rpi'[i]["active_processes"]

CamEntryKept(i, k) ==
  i \in DOMAIN cams' /\ k \in DOMAIN cams'[i]["active_processes"]

\* The step is one of the operations stated to end the entry of key k
RpiEntryEnded(i, k) ==
  \/ last'.op \in {"reinitialize", "reinitialize_rpi"}
  \/ /\ last'.op = "remove_active_process_rpi"
     /\ last'.id = rpi[i]["rpi_type"] /\ PidKey(last'.pid) = k
  \/ /\ last'.op = "remove_all_active_process_rpi"
     /\ last'.id = rpi[i]["rpi_type"]

CamEntryEnded(i, k) ==
  \/ last'.op = "reinitialize"
  \/ last'.op = "remove_local_process" /\ PidKey(last'.pid) = k

\* The step registers the state file of the camera of record i
CamRegistered(i) ==
  /\ RegisteredLast'
  /\ cam_name_from_state_file(RegisteredFile') = cams[i]["cam_name"]

StoredTables ==
  [session |-> session, rpi |-> rpi, cams |-> cams, rodents |-> rodents,
   users |-> users]

\* The pids of the requests in progress or just served
PidsInUse == {reqs[p].doc.pid : p \in {q \in Procs : reqs[q].pc # "idle"}}

\* start_rpi_process after run_script returned pid, or rpi_kill_process
\* after the remote kill: the ledger operation is about to read the file
StartLedgerRequest(p, op, pid) ==
  /\ reqs[p].pc = "idle"
  /\ pid \notin PidsInUse
  /\ Matching(rpi, IsRpi("pwm")) # {}
  /\ Goto(p, "read", [op |-> op, pid |-> pid, tables |-> <<>>], <<>>)
  /\ UNCHANGED <<session, rpi, cams, rodents, users, folder, last, recVars>>

\* Table.update: self._storage.read()
LedgerRead(p) ==
  /\ reqs[p].pc = "read"
  /\ Goto(p, "write", [reqs[p].doc EXCEPT !.tables = StoredTables], <<>>)
  /\ UNCHANGED <<session, rpi, cams, rodents, users, folder, last, recVars>>

\* Table.update: the transform on the tables read, then storage.write
LedgerWrite(p) ==
  LET doc == reqs[p].doc
      read == doc.tables
  IN  /\ reqs[p].pc = "write"
      /\ rpi' = IF doc.op = "add_active_process_rpi"
                THEN add_active_process_rpi(read.rpi, "pwm", doc.pid,
                       TableGet(read.rpi, IsRpi("pwm"))[1]["extended_description"])
                ELSE remove_active_process_rpi(read.rpi, "pwm", doc.pid)
      /\ session' = read.session
      /\ cams' = read.cams
      /\ rodents' = read.rodents
      /\ users' = read.users
      /\ Goto(p, "served", [doc EXCEPT !.tables = <<>>], <<>>)
      /\ UNCHANGED <<folder, last, recVars>>

\* The responses are sent; the next requests may come
NextRound ==
  /\ \A p \in Procs : reqs[p].pc = "served"
  /\ reqs' = [p \in Procs |-> IdleReq]
  /\ UNCHANGED <<session, rpi, cams, rodents, users, folder, last, recVars>>

LedgerOps == {"add_active_process_rpi", "remove_active_process_rpi"}

NextAttach ==
  \/ ReinitializeRpi /\ \A p \in Procs : reqs[p].pc = "idle"
  \/ \E p \in Procs, op \in LedgerOps, pid \in Pids :
       StartLedgerRequest(p, op, pid)
  \/ \E p \in Procs : LedgerRead(p)
  \/ \E p \in Procs : LedgerWrite(p)
  \/ NextRound

SpecAttach == Init /\ [][NextAttach]_vars

\* The effect of the served request p is in the active_processes of pwm
EffectPresent(p) ==
  \A i \in Matching(rpi, IsRpi("pwm")) :
    (reqs[p].doc.op = "add_active_process_rpi")
      = (PidKey(reqs[p].doc.pid) \in DOMAIN rpi[i]["active_processes"])

\* C14: when two attach or detach requests for different pids on one device
\* have both been served, the effects of both are in its active_processes,
\* whatever the interleaving of their reads and writes.
NoLostUpdate ==
  (\A p \in Procs : reqs[p].pc = "served") => \A p \in Procs : EffectPresent(p)

(***************************************************************************)
(* The block-creating handlers of main.py, each run to completion.         *)
(***************************************************************************)
MaxSeqBlocks == 11

\* create_new_session: reinitialize (which may raise in its save), then the
\* block "01" of the new session
CreateNewSession(form) ==
  IF has_active_block(session) /\ save_in_session_folder_raises(session)
  THEN /\ last' = SessionDone("create_new_session", TRUE)
       /\ UNCHANGED <<session, rpi, cams, rodents, users, folder, reqs, recVars>>
  ELSE \E files \in Orders(folder) :
         /\ session' = insert_active_block(<<>>, session_block_content(form))
         /\ rpi' = reinitialize_rpi
         /\ cams' = reinitialize_tis_cam_win(files)
         /\ last' = SessionSaved("create_new_session",
                                 reinitialize_saves(session))
         /\ UNCHANGED <<rodents, users, folder, reqs, recVars>>

\* create_new_block: the block id from the number of stored blocks, the
\* session properties from block "01" (a raise when it is absent)
CreateNewBlock(form) ==
  /\ Len(session) < MaxSeqBlocks
  /\ IF get_session_properties_raises(session)
     THEN /\ last' = SessionDone("create_new_block", TRUE)
          /\ UNCHANGED session
     ELSE /\ session' =
               insert_active_block(session,
                 new_block_content(session, form, Format02d(Len(session) + 1)))
          /\ last' = SessionDone("create_new_block", FALSE)
  /\ UNCHANGED <<rpi, cams, rodents, users, folder, reqs, recVars>>

NextHandlers ==
  \/ \E form \in SessionForms : CreateNewSession(form)
  \/ \E form \in BlockForms : CreateNewBlock(form)

SpecHandlers == Init /\ [][NextHandlers]_vars

\* C15: with the block-creating requests served one at a time, the k-th
\* block of the session has the block_id made of the two decimal digits of
\* k, so the ids are 01, 02, ... in insertion order and pairwise distinct.
BlockIdsCountUp ==
  /\ \A i \in DOMAIN session :
       session[i]["block_id"] = <<i \div 10, i % 10>>
  /\ \A i, j \in DOMAIN session :
       i # j => session[i]["block_id"] # session[j]["block_id"]

\* create_new_block has created a block whose number has two digits
BlockIdsWitness ==
  /\ last.op = "create_new_block" /\ ~last.err
  /\ Len(session) >= 10
  /\ session[Len(session)]["block_id"] = <<1, 0 + (Len(session) - 10)>>

\* C16: a create_new_block request keeps the block id it made from the block
\* count it read, and its insert stores the block under that id whatever the
\* session holds by then; two requests that read the same count therefore
\* both insert a block with the same block_id.
InsertKeepsComputedId ==
  [][\A p \in Procs :
       (reqs[p].pc = "insert" /\ reqs'[p].pc = "idle")
       => /\ Len(session') = Len(session) + 1
          /\ session'[Len(session')]["block_id"] = reqs[p].doc["block_id"]]_vars

\* Two stored blocks share a block_id after a create_new_block
DuplicateBlockIdWitness ==
  /\ last.op = "create_new_block" /\ ~last.err
  /\ \E i, j \in DOMAIN session :
       /\ i < j
       /\ Has(session[i], "block_id") /\ Has(session[j], "block_id")
       /\ session[i]["block_id"] = session[j]["block_id"]
       /\ session[i]["block_id"] # Format02d(1)

(***************************************************************************)
(* The reads of the session that raise, next to the operations that change *)
(* the session.                                                            *)
(***************************************************************************)
GetSessionProperties ==
  /\ last' = SessionDone("get_session_properties",
                         get_session_properties_raises(session))
  /\ UNCHANGED <<session, rpi, cams, rodents, users, folder, reqs, recVars>>

GetActiveBlockPath ==
  /\ last' = SessionDone("get_active_block_path",
                         get_active_block_path_raises(session))
  /\ UNCHANGED <<session, rpi, cams, rodents, users, folder, reqs, recVars>>

NextReads ==
  \/ \E form \in SessionForms : CreateNewSession(form)
  \/ \E form \in BlockForms : Len(session) < MaxBlocks /\ CreateNewBlock(form)
  \/ /\ Len(session) < MaxBlocks
     /\ InsertActiveBlock(BlockDoc(Format02d(2), "true"))
  \/ SetBlocksToInactive
  \/ Reinitialize
  \/ GetSessionProperties
  \/ GetActiveBlockPath

SpecReads == Init /\ [][NextReads]_vars

StoreUnchanged ==
  /\ session' = session /\ rpi' = rpi /\ cams' = cams
  /\ rodents' = rodents /\ users' = users

\* C17: get_session_properties with no block "01" and get_active_block_path
\* with no running block raise and change nothing in the store; so does
\* create_new_block on an empty session, which inserts no block.
MissingBlockRaises ==
  [][/\ (last'.op = "get_session_properties"
         /\ Matching(session, IsFirstBlock) = {})
        => (last'.err /\ StoreUnchanged)
     /\ (last'.op = "get_active_block_path" /\ ~has_active_block(session))
        => (last'.err /\ StoreUnchanged)
     /\ (last'.op = "create_new_block" /\ ~has_session(session))
        => (last'.err /\ StoreUnchanged /\ ~has_session(session'))]_vars

\* get_active_block_path raised on a session whose blocks are all stopped
MissingBlockWitness ==
  /\ last.op = "get_active_block_path" /\ last.err
  /\ has_session(session) /\ ~has_active_block(session)
  /\ Matching(session, IsFirstBlock) # {}

(***************************************************************************)
(* Properties of reinitialize.                                             *)
(***************************************************************************)
\* No operation other than reinitialize removes a block
BlocksKept ==
  last'.op # "reinitialize" =>
    /\ Len(session') >= Len(session)
    /\ has_session(session) => has_session(session')

\* C18 as stated: once the session holds a block it holds one until a
\* reinitialize, which is the only operation that removes blocks and which
\* always ends with an empty session.
SessionUntilReinitialize ==
  [][/\ BlocksKept
     /\ last'.op = "reinitialize" => ~has_session(session')]_vars

\* C18 amended: as above for a reinitialize that returns; a reinitialize that
\* raises, which it does in its save, leaves the session as it was.
SessionUntilReinitializeReturns ==
  [][/\ BlocksKept
     /\ (last'.op = "reinitialize" /\ ~last'.err) => ~has_session(session')
     /\ (last'.op = "reinitialize" /\ last'.err) => session' = session]_vars

\* reinitialize returned after saving a session, and the session is empty
SessionDroppedWitness ==
  /\ last.op = "reinitialize" /\ ~last.err
  /\ last.saves # <<>>
  /\ ~has_session(session)

\* C19: a reinitialize that returns has written a copy of the database file
\* exactly when a block was running at its start; the copy was taken before
\* the session was dropped, so it holds the blocks of the session.  A
\* reinitialize that raises was saving, with a block running.
SavedIffRunning ==
  [][/\ (last'.op = "reinitialize" /\ ~last'.err) =>
          /\ (last'.saves # <<>>) = has_active_block(session)
          /\ last'.saves # <<>> =>
               /\ Len(last'.saves) = 1
               /\ last'.saves[1].session = session
               /\ has_session(last'.saves[1].session)
     /\ (last'.op = "reinitialize" /\ last'.err) =>
          has_active_block(session)]_vars

\* reinitialize has saved a session of several blocks before dropping it
SavedBeforeDropWitness ==
  /\ last.op = "reinitialize" /\ ~last.err
  /\ last.saves # <<>>
  /\ Len(last.saves[1].session) >= 2
  /\ session = <<>>

(***************************************************************************)
(* A reinitialize stopped between two of its store operations, and run     *)
(* again.                                                                  *)
(***************************************************************************)
\* The positions of reinitialize after its first write: after the session
\* drop, after the rpi drop, after the rpi insert, after the camera drop and
\* between two camera registrations
InterruptPoints == {"drop_rpi", "insert_rpi", "drop_cams", "register"}

\* The process serving request p stops; the request is never resumed
Interrupt(p) ==
  /\ reqs[p].pc \in InterruptPoints
  /\ last' = Done("interrupted", "session", reqs[p].pc, 0, <<>>, TRUE)
  /\ Goto(p, "idle", <<>>, <<>>)
  /\ UNCHANGED <<session, rpi, cams, rodents, users, folder, recVars>>

NextInterrupt ==
  \/ RequestStep(1)
  \/ Interrupt(1)
  \/ reqs[1].pc = "idle" /\ Reinitialize
  \/ reqs[1].pc = "idle" /\ AddActiveProcessRpi("pwm", 1, "d1")
  \/ \E c \in LedgerCams : reqs[1].pc = "idle" /\ AddTisCamProcess(c, "record", 1)

SpecInterrupt == Init /\ [][NextInterrupt]_vars

\* The tables an uninterrupted reinitialize may end with
ReinitializeOutcome ==
  /\ session = <<>>
  /\ rpi = reinitialize_rpi
  /\ \E files \in Orders(folder) : cams = reinitialize_tis_cam_win(files)

\* C20: a reinitialize run right after a reinitialize that was stopped
\* between two of its store operations raises nothing and ends with the
\* tables of an uninterrupted reinitialize; so does a reinitialize run right
\* after a reinitialize, which leaves the session, the rpi table and the
\* camera records as the first one left them.
RerunReinitialize ==
  (/\ last.op = "reinitialize" /\ last.prev # <<>>
   /\ \A p \in Procs : reqs[p].pc = "idle") =>
    /\ ~last.err
    /\ ReinitializeOutcome
    /\ last.prev[1].op = "reinitialize" =>
         /\ session = last.prev[1].pre[1]
         /\ rpi = last.prev[1].pre[2]
         /\ Range(cams) = Range(last.prev[1].pre[3])

\* reinitialize was run after one stopped between two camera registrations,
\* with one camera registered
RerunWitness ==
  /\ last.op = "reinitialize" /\ last.prev # <<>>
  /\ \A p \in Procs : reqs[p].pc = "idle"
  /\ last.prev[1].op = "interrupted" /\ last.prev[1].id = "register"
  /\ Len(last.prev[1].pre[3]) = 1
  /\ ReinitializeOutcome

(***************************************************************************)
(* Rodents and users.                                                      *)
(***************************************************************************)
PeopleOps == {"add_rodent", "remove_rodent", "add_user", "remove_user"}

\* C21: a step that changes the rodents table or the users table is a step
\* of add_rodent, remove_rodent, add_user or remove_user; reinitialize and
\* the session, device and process operations leave both tables as they
\* were.
OnlyPeopleOpsChangePeople ==
  [][(rodents' # rodents \/ users' # users) => last'.op \in PeopleOps]_vars

\* reinitialize has returned while a rodent and a user were stored
PeopleKeptWitness ==
  /\ last.op = "reinitialize" /\ ~last.err
  /\ rodents # <<>> /\ users # <<>>

\* add_rodent, remove_rodent, add_user and remove_user in any order
NextPeople ==
  \/ \E r \in RodentNames, s \in SensorIds : AddRodent(r, s)
  \/ \E r \in RodentNames : RemoveRodent(r)
  \/ \E u \in UserNames : AddUser(u)
  \/ \E u \in UserNames : RemoveUser(u)

SpecPeople == Init /\ [][NextPeople]_vars

OneRecordPerName(tbl, field) ==
  \A i, j \in DOMAIN tbl : tbl[i][field] = tbl[j][field] => i = j

OtherNames(tbl, field, name) == {d \in Range(tbl) : d[field] # name}

\* C22: the rodents table holds at most one record per rodent_name and the
\* users table at most one per user_name; after add_rodent(name, sensor)
\* the record of name carries sensor, after add_user(name) there is a record
\* of name, after a remove there is no record of the name, and in each case
\* the records of the other names and the other table are as before.
PeopleUniqueByName ==
  /\ OneRecordPerName(rodents, "rodent_name")
  /\ OneRecordPerName(users, "user_name")
  /\ last.op \in {"add_rodent", "remove_rodent"} =>
       /\ users = last.pre[2]
       /\ OtherNames(rodents, "rodent_name", last.id)
            = OtherNames(last.pre[1], "rodent_name", last.id)
       /\ Range(rodents) \ OtherNames(rodents, "rodent_name", last.id)
            = IF last.op = "remove_rodent" THEN {}
              ELSE {[rodent_name |-> last.id, sensor_id |-> last.pre[3]]}
  /\ last.op \in {"add_user", "remove_user"} =>
       /\ rodents = last.pre[1]
       /\ OtherNames(users, "user_name", last.id)
            = OtherNames(last.pre[2], "user_name", last.id)
       /\ Range(users) \ OtherNames(users, "user_name", last.id)
            = IF last.op = "remove_user" THEN {}
              ELSE {[user_name |-> last.id]}

\* add_rodent was called for a name stored with another sensor_id, next to
\* a record of another name
PeopleReplaceWitness ==
  /\ last.op = "add_rodent"
  /\ \E d \in Range(last.pre[1]) :
       d.rodent_name = last.id /\ d.sensor_id # last.pre[3]
  /\ OtherNames(last.pre[1], "rodent_name", last.id) # {}
  /\ Len(rodents) = 2

(***************************************************************************)
(* The handlers that start and stop processes (main.py, lines 180-356).    *)
(* The remote and local collaborators either return or raise.              *)
(***************************************************************************)
Outcomes == {"ok", "raises"}

\* The loop of kill_all over busy_rpi after n of its rounds: ssh.kill_all
\* returned for the first n records and their rpi_type was cleared
RECURSIVE kill_all_rpi(_, _, _)
kill_all_rpi(tbl, busy_rpi, n) ==
  IF n = 0 THEN tbl
  ELSE remove_all_active_process_rpi(kill_all_rpi(tbl, busy_rpi, n - 1),
                                     busy_rpi[n]["rpi_type"])

\* remove_multiple_local_processes(pid_list)
RECURSIVE remove_multiple_local_processes(_, _)
remove_multiple_local_processes(tbl, pid_list) ==
  IF Len(pid_list) = 0 THEN tbl
  ELSE remove_multiple_local_processes(
         remove_local_process(tbl, Head(pid_list)), Tail(pid_list))

\* The int pids of the str keys of a dict, in a sequence
RECURSIVE IntKeys(_)
IntKeys(keys) ==
  IF keys = {} THEN <<>>
  ELSE LET k == CHOOSE k \in keys : TRUE
           pid == CHOOSE p \in 0..(MaxPid + 1) : ToString(p) = k
       IN  <<pid>> \o IntKeys(keys \ {k})

HandlerDone(op, kind, id, pid, err) ==
  Done(op, kind, id, pid, <<rpi, cams, session>>, err)

\* rpi_kill_process that updates the database before it kills
RpiKillProcessRemovesFirst(rpi_type, pid, kill) ==
  /\ rpi' = remove_active_process_rpi(rpi, rpi_type, pid)
  /\ last' = HandlerDone("rpi_kill_process", "remote", {}, pid,
                         kill = "raises")
  /\ UNCHANGED <<session, cams, folder, reqs, rodents, users, recVars>>

\* rpi_kill_process: the credentials of an unregistered rpi_type raise
\* (None is not subscriptable); ssh.kill, then remove_active_process_rpi
RpiKillProcess(rpi_type, pid, kill) ==
  LET raises == Matching(rpi, IsRpi(rpi_type)) = {} \/ kill = "raises"
  IN  /\ rpi' = IF raises THEN rpi
                ELSE remove_active_process_rpi(rpi, rpi_type, pid)
      /\ last' = HandlerDone("rpi_kill_process", "remote", {}, pid, raises)
      /\ UNCHANGED <<session, cams, folder, reqs, rodents, users, recVars>>

\* rpi_kill_all: ssh.kill_all, then remove_all_active_process_rpi
RpiKillAll(rpi_type, kill) ==
  LET raises == Matching(rpi, IsRpi(rpi_type)) = {} \/ kill = "raises"
  IN  /\ rpi' = IF raises THEN rpi
                ELSE remove_all_active_process_rpi(rpi, rpi_type)
      /\ last' = HandlerDone("rpi_kill_all", "remote", {}, 0, raises)
      /\ UNCHANGED <<session, cams, folder, reqs, rodents, users, recVars>>

\* kill_all that clears the rpi records and leaves the local processes
KillAllRemoteOnly(n, local_kill) ==
  LET busy_rpi == get_busy_rpi(rpi)
      killed == {busy_rpi[i]["rpi_type"] : i \in 1..n}
  IN  /\ n \in 0..Len(busy_rpi)
      /\ rpi' = kill_all_rpi(rpi, busy_rpi, n)
      /\ cams' = cams
      /\ last' = HandlerDone("kill_all",
                             IF n < Len(busy_rpi) THEN "remote" ELSE "local",
                             killed, 0,
                             n < Len(busy_rpi) \/ local_kill = "raises")
      /\ UNCHANGED <<session, folder, reqs, rodents, users, recVars>>

\* kill_all: for each busy rpi, ssh.kill_all then clear its rpi_type; the
\* remote kill raises in round n + 1, or in no round and then the local
\* processes are killed and removed.  The record kept of the request names
\* the rpi types whose kill returned.
KillAll(n, local_kill) ==
  LET busy_rpi == get_busy_rpi(rpi)
      killed == {busy_rpi[i]["rpi_type"] : i \in 1..n}
      local_processes == get_processes_from_table(cams)
      local_processes_pids == IntKeys(DOMAIN local_processes)
  IN  /\ n \in 0..Len(busy_rpi)
      /\ rpi' = kill_all_rpi(rpi, busy_rpi, n)
      /\ IF n < Len(busy_rpi)
         THEN /\ local_kill = "ok"
              /\ cams' = cams
              /\ last' = HandlerDone("kill_all", "remote", killed, 0, TRUE)
         ELSE IF local_kill = "raises"
         THEN /\ cams' = cams
              /\ last' = HandlerDone("kill_all", "local", killed, 0, TRUE)
         ELSE /\ cams' = remove_multiple_local_processes(cams,
                                                          local_processes_pids)
              /\ last' = HandlerDone("kill_all", "local", killed, 0, FALSE)
      /\ UNCHANGED <<session, folder, reqs, rodents, users, recVars>>

\* start_rpi_process that attaches whatever the start did
StartRpiProcessAttachesAnyway(rpi_type, start, pid) ==
  /\ RoomFor(rpi, IsRpi(rpi_type), pid)
  /\ rpi' = add_active_process_rpi(rpi, rpi_type, pid, "Host: pwm")
  /\ last' = HandlerDone("start_rpi_process", "start", rpi_type, pid,
                         start = "raises")
  /\ UNCHANGED <<session, cams, folder, reqs, rodents, users, recVars>>

\* start_rpi_process: the lookups of an unregistered rpi_type raise, then
\* ssh.run_script returns the pid or raises, then the pid is attached with
\* the extended_description of the record
StartRpiProcess(rpi_type, start, pid) ==
  LET found == TableGet(rpi, IsRpi(rpi_type))
      raises == found = <<>> \/ start = "raises"
  IN  /\ RoomFor(rpi, IsRpi(rpi_type), pid)
      /\ rpi' = IF raises THEN rpi
                ELSE add_active_process_rpi(rpi, rpi_type, pid,
                                            found[1]["extended_description"])
      /\ last' = HandlerDone("start_rpi_process",
                             IF found = <<>> THEN "lookup" ELSE "start",
                             rpi_type, pid, raises)
      /\ UNCHANGED <<session, cams, folder, reqs, rodents, users, recVars>>

\* tis_cam_windows_preview: get_state_file_path of an unregistered camera
\* raises, then start_tis_preview returns the pid or raises, then the pid
\* is attached
TisCamWindowsPreview(cam_name, start, pid) ==
  LET found == TableGet(cams, IsCam(cam_name))
      raises == found = <<>> \/ start = "raises"
  IN  /\ RoomFor(cams, IsCam(cam_name), pid)
      /\ cams' = IF raises THEN cams
                 ELSE add_tis_cam_process(cams, cam_name, "preview", pid)
      /\ last' = HandlerDone("tis_cam_windows_preview",
                             IF found = <<>> THEN "lookup" ELSE "start",
                             cam_name, pid, raises)
      /\ UNCHANGED <<session, rpi, folder, reqs, rodents, users, recVars>>

\* tis_cam_windows_record that does not look up the folder of the running
\* block
TisCamWindowsRecordAnyBlock(cam_name, start, pid) ==
  LET lookup_raises == \/ TableGet(cams, IsCam(cam_name)) = <<>>
                       \/ TableGet(rpi, IsRpi("pwm")) = <<>>
      raises == lookup_raises \/ start = "raises"
  IN  /\ RoomFor(cams, IsCam(cam_name), pid)
      /\ cams' = IF raises THEN cams
                 ELSE add_tis_cam_process(cams, cam_name, "record", pid)
      /\ last' = HandlerDone("tis_cam_windows_record",
                             IF lookup_raises THEN "lookup" ELSE "start",
                             cam_name, pid, raises)
      /\ UNCHANGED <<session, rpi, folder, reqs, rodents, users, recVars>>

\* tis_cam_windows_record: the state file of the camera, the parameters of
\* the pwm record and the video folder of the active block are looked up
\* (each raises when absent), then start_tis_recording returns the pid or
\* raises, then the pid is attached
TisCamWindowsRecord(cam_name, start, pid) ==
  LET lookup_raises == \/ TableGet(cams, IsCam(cam_name)) = <<>>
                       \/ TableGet(rpi, IsRpi("pwm")) = <<>>
                       \/ get_active_block_path_raises(session)
      raises == lookup_raises \/ start = "raises"
  IN  /\ RoomFor(cams, IsCam(cam_name), pid)
      /\ cams' = IF raises THEN cams
                 ELSE add_tis_cam_process(cams, cam_name, "record", pid)
      /\ last' = HandlerDone("tis_cam_windows_record",
                             IF lookup_raises THEN "lookup" ELSE "start",
                             cam_name, pid, raises)
      /\ UNCHANGED <<session, rpi, folder, reqs, rodents, users, recVars>>

NextProcessHandlers ==
  \/ Reinitialize
  \/ InitializeRpiPwm
  \/ \E t \in RpiTypes, p \in Pids : AddActiveProcessRpi(t, p, "d1")
  \/ \E c \in LedgerCams, p \in Pids : AddTisCamProcess(c, "record", p)
  \/ \E t \in RpiTypes, p \in Pids, k \in Outcomes : RpiKillProcess(t, p, k)
  \/ \E t \in RpiTypes, k \in Outcomes : RpiKillAll(t, k)
  \/ \E n \in 0..MaxRpi, k \in Outcomes : KillAll(n, k)

SpecProcessHandlers == Init /\ [][NextProcessHandlers]_vars

RemoteKillFailed ==
  /\ last.op \in {"rpi_kill_process", "rpi_kill_all", "kill_all"}
  /\ last.kind = "remote" /\ last.err

NextStart ==
  \/ Reinitialize
  \/ /\ Len(session) < MaxLedgerBlocks
     /\ InsertActiveBlock(BlockDoc(Format02d(1), "true"))
  \/ \E t \in RpiTypes, k \in Outcomes, p \in Pids : StartRpiProcess(t, k, p)
  \/ \E c \in LedgerCams, k \in Outcomes, p \in Pids :
       TisCamWindowsPreview(c, k, p)
  \/ \E c \in LedgerCams, k \in Outcomes, p \in Pids :
       TisCamWindowsRecord(c, k, p)

SpecStart == Init /\ [][NextStart]_vars

StartOps ==
  {"start_rpi_process", "tis_cam_windows_preview", "tis_cam_windows_record"}

\* C24: a start request that raised, in a lookup or in the start of the
\* process, left the rpi table and the camera table as they were; a start
\* request that returned changed only the table of its device, where every
\* record of the device holds an entry under the pid the start returned,
\* carrying that pid.
AttachOnlyAfterStart ==
  last.op \in StartOps =>
    IF last.err THEN rpi = last.pre[1] /\ cams = last.pre[2]
    ELSE IF last.op = "start_rpi_process"
    THEN /\ cams = last.pre[2]
         /\ \A i \in Matching(rpi, IsRpi(last.id)) :
              /\ PidKey(last.pid) \in DOMAIN rpi[i]["active_processes"]
              /\ rpi[i]["active_processes"][PidKey(last.pid)]["pid"] = last.pid
    ELSE /\ rpi = last.pre[1]
         /\ \A i \in Matching(cams, IsCam(last.id)) :
              /\ PidKey(last.pid) \in DOMAIN cams[i]["active_processes"]
              /\ cams[i]["active_processes"][PidKey(last.pid)]["pid"] = last.pid

\* The start of a recording raised for a registered camera with a running
\* block, while the pwm record held a process
StartRaisedWitness ==
  /\ last.op = "tis_cam_windows_record" /\ last.kind = "start" /\ last.err
  /\ get_processes_from_table(rpi) # EmptyDict
  /\ get_processes_from_table(cams) = EmptyDict

(***************************************************************************)
(* What the process operations leave alone.                                *)
(***************************************************************************)
\* The document doc without the entry of key k in its active_processes
WithoutEntry(doc, k) ==
  [doc EXCEPT !["active_processes"] =
     IF DOMAIN @ \ {k} = {} THEN EmptyDict
     ELSE [j \in DOMAIN @ \ {k} |-> @[j]]]

\* C25: a step of remove_local_process(pid) leaves the session and the rpi
\* table as they were, and every camera record as it was except that its
\* active_processes no longer holds the key of pid.
DetachAnywhereFrame ==
  [][last'.op = "remove_local_process" =>
       /\ rpi' = rpi /\ session' = session
       /\ Len(cams') = Len(cams)
       /\ \A i \in DOMAIN cams :
            cams'[i] = WithoutEntry(cams[i], PidKey(last'.pid))]_vars

\* remove_local_process removed a pid from a camera while the rpi record
\* held an entry under the same pid, which it still holds
DetachAnywhereWitness ==
  /\ last.op = "remove_local_process" /\ ~last.err
  /\ \E i \in DOMAIN last.pre : PidKey(last.pid) \in DOMAIN last.pre[i]
  /\ \E i \in DOMAIN rpi : PidKey(last.pid) \in DOMAIN rpi[i]["active_processes"]

DeviceOps ==
  {"add_active_process_rpi", "remove_active_process_rpi",
   "remove_all_active_process_rpi", "add_tis_cam_process"}

\* new is old with at most its active_processes changed
SameButProcesses(old, new) ==
  /\ DOMAIN new = DOMAIN old
  /\ \A f \in DOMAIN old \ {"active_processes"} : new[f] = old[f]

\* Between the tables old and new, the records whose field carries id
\* changed at most their active_processes and the other records did not
\* change
OnlyDeviceChanged(old, new, field, id) ==
  /\ Len(new) = Len(old)
  /\ \A i \in DOMAIN old :
       IF old[i][field] = id THEN SameButProcesses(old[i], new[i])
       ELSE new[i] = old[i]

\* C26: a step of add_active_process_rpi, remove_active_process_rpi,
\* remove_all_active_process_rpi or add_tis_cam_process leaves the session
\* and the table of the other kind as they were, leaves every record of
\* another device as it was, changes nothing but active_processes in the
\* records of the targeted device, and remove_all_active_process_rpi leaves
\* these with an empty active_processes.
DeviceOpsFrame ==
  [][last'.op \in DeviceOps =>
       /\ session' = session
       /\ IF last'.kind = "rpi"
          THEN /\ cams' = cams
               /\ OnlyDeviceChanged(rpi, rpi', "rpi_type", last'.id)
          ELSE /\ rpi' = rpi
               /\ OnlyDeviceChanged(cams, cams', "cam_name", last'.id)
       /\ last'.op = "remove_all_active_process_rpi" =>
            \A i \in Matching(rpi', IsRpi(last'.id)) :
              rpi'[i]["active_processes"] = EmptyDict]_vars

\* A process was attached to a camera while the other camera held one and a
\* block was stored
DeviceOpsWitness ==
  /\ last.op = "add_tis_cam_process"
  /\ session # <<>>
  /\ \E i \in DOMAIN cams :
       /\ cams[i]["cam_name"] = last.id
       /\ cams[i]["active_processes"] # EmptyDict
  /\ \E i \in DOMAIN cams :
       /\ cams[i]["cam_name"] # last.id
       /\ cams[i]["active_processes"] # EmptyDict

\* C27: after an attach of a pid to a device, every record of the device
\* holds the entries it held before under the other pids, unchanged, and one
\* entry under the pid, carrying the pid and the description (rpi) or the
\* action (camera) given to this attach, also when an entry of the pid was
\* there before.
AttachTwiceOverwrites ==
  last.op \in {"add_active_process_rpi", "add_tis_cam_process"} =>
    LET now == IF last.kind = "rpi" THEN ProcsOf(rpi, IsRpi(last.id))
               ELSE ProcsOf(cams, IsCam(last.id))
        key == PidKey(last.pid)
    IN  /\ DOMAIN now = DOMAIN last.pre
        /\ \A i \in DOMAIN now :
             /\ DOMAIN now[i] = DOMAIN last.pre[i] \cup {key}
             /\ \A k \in DOMAIN last.pre[i] \ {key} : now[i][k] = last.pre[i][k]
             /\ now[i][key]["pid"] = last.pid
             /\ IF last.kind = "rpi" THEN now[i][key]["description"] = last.arg
                ELSE now[i][key]["action"] = last.arg

\* A pid was attached to a camera that held it with the other action, next
\* to an entry of another pid
AttachTwiceWitness ==
  /\ last.op = "add_tis_cam_process"
  /\ \E i \in DOMAIN last.pre :
       /\ PidKey(last.pid) \in DOMAIN last.pre[i]
       /\ last.pre[i][PidKey(last.pid)]["action"] # last.arg
       /\ DOMAIN last.pre[i] # {PidKey(last.pid)}

\* new is old with at most its running field changed or added
SameButRunning(old, new) ==
  /\ DOMAIN new \ {"running"} = DOMAIN old \ {"running"}
  /\ \A f \in DOMAIN old \ {"running"} : new[f] = old[f]

\* C28: a step of set_blocks_to_inactive adds no record to the session and
\* removes none, changes no field other than running in any block, and
\* leaves no block with running = true, whatever the session held.
SetInactiveChangesOnlyRunning ==
  [][last'.op = "set_blocks_to_inactive" =>
       /\ Len(session') = Len(session)
       /\ \A i \in DOMAIN session \cap DOMAIN session' :
            SameButRunning(session[i], session'[i])
       /\ ~has_active_block(session')]_vars

\* C29: after a reinitialize that returned, every camera record comes from
\* a file of the folder whose name ends with the state-file suffix, and the
\* camera table is the one obtained by registering these files alone, in
\* some order; a reinitialize raises only in its save, with a block still
\* running, never because of a file of the folder.
NonStateFilesSkipped ==
  last.op = "reinitialize" =>
    IF last.err THEN has_active_block(session)
    ELSE /\ \A i \in DOMAIN cams : cams[i]["state_file_path"] \in StoredStateFiles
         /\ \E files \in Orders(StoredStateFiles) :
              cams = reinitialize_tis_cam_win(files)

\* reinitialize returned with a file that is not a state file in the folder
\* and registered the two cameras
NonStateFilesWitness ==
  /\ last.op = "reinitialize" /\ ~last.err
  /\ OtherFile \in folder
  /\ Len(cams) = 2

\* C30: the copy of the database file that a reinitialize writes while a
\* block is running goes to the block_path of the running block.
SavedInActiveBlockFolder ==
  [][(last'.op = "reinitialize" /\ last'.saves # <<>>) =>
       last'.saves[1].path = get_active_block(session)[1]["block_path"]]_vars

(***************************************************************************)
(* Properties of the route layer.                                          *)
(***************************************************************************)
\* The block-creating handlers with a data folder posted by the user, which
\* need not be the configured one, and a clock that moves on
DataFolders == {ConfigDataFolder, "disk2"}
Days == {1, 2}

NextFields ==
  \/ \E form \in SessionForms, d \in DataFolders :
       CreateNewSession([form EXCEPT !.data_folder = d])
  \/ \E form \in BlockForms, t \in Days :
       Len(session) < MaxBlocks /\ CreateNewBlock([form EXCEPT !.now = t])

SpecFields == Init /\ [][NextFields]_vars

\* C31: every block of the session carries the seven session fields with
\* the values they have in the block of block_id "01".
BlocksAgreeOnSessionFields ==
  \A i \in DOMAIN session :
    /\ SessionFields \subseteq DOMAIN session[i]
    /\ ~get_session_properties_raises(session)
    /\ \A k \in SessionFields :
         session[i][k] = get_session_properties(session)[k]

(***************************************************************************)
(* Construction of the database object.                                    *)
(***************************************************************************)
\* The keyword arguments of a construction: none, as main.py does, or a
\* storage middleware of the caller
StorageKwargs == {<<>>, [storage |-> SerializationMiddleware]}

\* db = AcquisitionDB(**kwargs) on the file that exists
Construct(kwargs) ==
  /\ storage' = AcquisitionDB_init(kwargs)
  /\ last' = [SessionDone("__init__", FALSE) EXCEPT
                !.arg = IF kwargs = <<>> THEN "default" ELSE "storage"]
  /\ UNCHANGED <<session, rpi, cams, rodents, users, folder, reqs,
                 user_data, recorder, chunk, shared_status>>

NextStorage ==
  \/ \E kwargs \in StorageKwargs : Construct(kwargs)
  \/ \E doc \in BlockInputs : InsertActiveBlock(doc)
  \/ SetBlocksToInactive
  \/ Reinitialize

SpecStorage == Init /\ [][NextStorage]_vars

\* C32: a database object constructed without a storage argument uses a
\* storage on which the timestamp and the path encoders are registered.
DefaultStorageHasEncoders ==
  (last.op = "none" \/ (last.op = "__init__" /\ last.arg = "default")) =>
    {"TinyDate", "TinyPath"} \subseteq storage.serializers

(***************************************************************************)
(* The session-ending and process handlers of main.py together.            *)
(***************************************************************************)
\* kill_by_pid: helpers.kill_by_pid, then remove_local_process
KillByPid(pid, kill) ==
  LET raises == kill = "raises"
  IN  /\ cams' = IF raises THEN cams ELSE remove_local_process(cams, pid)
      /\ last' = HandlerDone("kill_by_pid", "local", {}, pid, raises)
      /\ UNCHANGED <<session, rpi, folder, reqs, rodents, users, recVars>>

\* end_session that sets the blocks to inactive before kill_all
EndSessionDeactivatesFirst(n, local_kill, copy) ==
  LET busy_rpi == get_busy_rpi(rpi)
      kill_raises == n < Len(busy_rpi) \/ local_kill = "raises"
  IN  /\ n \in 0..Len(busy_rpi) /\ copy = "ok"
      /\ IF kill_raises
         THEN /\ session' = set_blocks_to_inactive(session)
              /\ rpi' = kill_all_rpi(rpi, busy_rpi, n)
              /\ cams' = cams
              /\ last' = HandlerDone("end_session", "kill_all", {}, 0, TRUE)
         ELSE \E files \in Orders(folder) :
                /\ session' = <<>>
                /\ rpi' = reinitialize_rpi
                /\ cams' = reinitialize_tis_cam_win(files)
                /\ last' = HandlerDone("end_session", "done", {}, 0, FALSE)
      /\ UNCHANGED <<folder, reqs, rodents, users, recVars>>

\* The copy of the database file end_session writes: the folder it goes to
\* and the three tables the file holds at that moment
end_session_saves(blocks, rpi_tbl, cam_tbl) ==
  IF has_session(blocks)
  THEN <<[path |-> get_session_path(blocks), session |-> blocks,
          rpi |-> rpi_tbl, cams |-> cam_tbl]>>
  ELSE <<>>

\* end_session that saves before it sets the blocks to inactive
EndSessionSavesFirst(n, local_kill, copy) ==
  LET busy_rpi == get_busy_rpi(rpi)
      killed == kill_all_rpi(rpi, busy_rpi, n)
      detached == remove_multiple_local_processes(cams,
                    IntKeys(DOMAIN get_processes_from_table(cams)))
  IN  /\ n = Len(busy_rpi) /\ local_kill = "ok" /\ copy = "ok"
      /\ ~save_in_session_folder_raises(session)
      /\ \E files \in Orders(folder) :
           /\ session' = <<>>
           /\ rpi' = reinitialize_rpi
           /\ cams' = reinitialize_tis_cam_win(files)
           /\ last' = [HandlerDone("end_session", "done", {}, 0, FALSE)
                         EXCEPT !.saves = end_session_saves(session, killed,
                                                            detached)]
      /\ UNCHANGED <<folder, reqs, rodents, users, recVars>>

\* end_session: kill_all (the remote kill raises in round n + 1 or the local
\* kill raises, and the request ends there); with a session the blocks are
\* set to inactive and the file is copied to the session folder (the lookup
\* of the folder or the copy raises, and the request ends there); then
\* reinitialize, which saves again only if a block is still running
EndSession(n, local_kill, copy) ==
  LET busy_rpi == get_busy_rpi(rpi)
      killed == kill_all_rpi(rpi, busy_rpi, n)
      kill_raises == n < Len(busy_rpi) \/ local_kill = "raises"
      detached == remove_multiple_local_processes(cams,
                    IntKeys(DOMAIN get_processes_from_table(cams)))
      inactive == set_blocks_to_inactive(session)
      save_raises == /\ has_session(session)
                     /\ \/ get_session_path_raises(inactive)
                        \/ copy = "raises"
  IN  /\ n \in 0..Len(busy_rpi)
      /\ n < Len(busy_rpi) => local_kill = "ok"
      /\ (kill_raises \/ ~has_session(session)) => copy = "ok"
      /\ IF kill_raises
         THEN /\ rpi' = killed
              /\ last' = HandlerDone("end_session", "kill_all", {}, 0, TRUE)
              /\ UNCHANGED <<session, cams>>
         ELSE IF save_raises
         THEN /\ rpi' = killed
              /\ cams' = detached
              /\ session' = inactive
              /\ last' = HandlerDone("end_session", "save", {}, 0, TRUE)
         ELSE IF has_active_block(inactive)
                 /\ save_in_session_folder_raises(inactive)
         THEN /\ rpi' = killed
              /\ cams' = detached
              /\ session' = inactive
              /\ last' = [HandlerDone("end_session", "reinitialize", {}, 0,
                                      TRUE)
                            EXCEPT !.saves = end_session_saves(session, killed,
                                                               detached)]
         ELSE \E files \in Orders(folder) :
                /\ session' = <<>>
                /\ rpi' = reinitialize_rpi
                /\ cams' = reinitialize_tis_cam_win(files)
                /\ last' = [HandlerDone("end_session", "done", {}, 0, FALSE)
                              EXCEPT !.saves =
                                end_session_saves(inactive, killed, detached)
                                \o reinitialize_saves(inactive)]
      /\ UNCHANGED <<folder, reqs, rodents, users, recVars>>

\* One new block form, one pid per kind of process
RouteBlockForm == [block_folder |-> "b2", block_notes |-> "", now |-> 1]

NextRoute ==
  \/ \E form \in SessionForms : CreateNewSession(form)
  \/ Len(session) <= MaxLedgerBlocks /\ CreateNewBlock(RouteBlockForm)
  \/ \E n \in 0..MaxRpi, k \in Outcomes, c \in Outcomes : EndSession(n, k, c)
  \/ \E n \in 0..MaxRpi, k \in Outcomes : KillAll(n, k)
  \/ \E p \in Pids, k \in Outcomes : KillByPid(p, k)
  \/ \E k \in Outcomes : StartRpiProcess("pwm", k, 1)
  \/ \E k \in Outcomes : TisCamWindowsPreview(CamB, k, 2)
  \/ \E c \in LedgerCams, k \in Outcomes : TisCamWindowsRecord(c, k, 1)

SpecRoute == Init /\ [][NextRoute]_vars

RunningBlocks == Matching(session, IsRunning)

\* C33: between two requests, a session that is not empty has exactly one
\* running block, whether the requests completed or were ended by a failing
\* collaborator.
OneRunningBlockAtBoundaries ==
  has_session(session) => Cardinality(RunningBlocks) = 1

\* C33 as amended: at most one block is running, and a session that is not
\* empty is left without a running block only by an end_session whose save
\* raised after the blocks were set to inactive; it stays so while no
\* request writes the session.
NoRunningBlockOnlyAfterFailedSave ==
  [][/\ Cardinality(Matching(session', IsRunning)) <= 1
     /\ (has_session(session') /\ Matching(session', IsRunning) = {}) =>
          \/ last'.op = "end_session" /\ last'.kind = "save" /\ last'.err
          \/ session' = session]_vars

FailedSaveWitness ==
  /\ last.op = "end_session" /\ last.kind = "save" /\ last.err
  /\ has_session(session) /\ RunningBlocks = {}

\* The cameras holding a process descriptor with action "record"
Recording(tbl) ==
  {i \in DOMAIN tbl :
     /\ Has(tbl[i], "active_processes")
     /\ \E k \in DOMAIN tbl[i]["active_processes"] :
          tbl[i]["active_processes"][k]["action"] = "record"}

Busy(tbl) ==
  {i \in DOMAIN tbl : Has(tbl[i], "active_processes")
                      /\ tbl[i]["active_processes"] # EmptyDict}

\* C35: after a kill_all that returned, no camera record and no rpi record
\* holds a process, both aggregates are empty, and the session blocks are
\* those of before the request.
KillAllDetachesAll ==
  (last.op = "kill_all" /\ ~last.err) =>
    /\ Busy(cams) = {} /\ Busy(rpi) = {}
    /\ get_processes_from_table(cams) = EmptyDict
    /\ get_processes_from_table(rpi) = EmptyDict
    /\ session = last.pre[3]

KillAllWitness ==
  /\ last.op = "kill_all" /\ ~last.err
  /\ Busy(last.pre[1]) # {} /\ Busy(last.pre[2]) # {}
  /\ has_active_block(session)

EndSessionCompleted == last.op = "end_session" /\ ~last.err

\* The database is as reinitialize leaves it, and the one copy written
\* went to the session folder and holds no attached process and no running
\* block
EndSessionClean ==
  /\ ~has_session(session) /\ RunningBlocks = {}
  /\ Busy(rpi) = {} /\ Busy(cams) = {}

SavedOnceDetached ==
  /\ Len(last.saves) = 1
  /\ last.saves[1].path = get_session_path(last.pre[3])
  /\ Len(last.saves[1].session) = Len(last.pre[3])
  /\ Matching(last.saves[1].session, IsRunning) = {}
  /\ Busy(last.saves[1].rpi) = {} /\ Busy(last.saves[1].cams) = {}

\* C36: after an end_session that completed there is no session, no running
\* block and no attached process, and the database file was copied to the
\* session folder exactly once, with every process detached and every block
\* not running.
EndSessionSavesOnce ==
  EndSessionCompleted => (EndSessionClean /\ SavedOnceDetached)

\* C36 as amended: the copy is made exactly once when there was a session,
\* and not at all when there was none.
EndSessionSavesOnceIfSession ==
  EndSessionCompleted =>
    /\ EndSessionClean
    /\ IF has_session(last.pre[3]) THEN SavedOnceDetached
       ELSE last.saves = <<>>

EndSessionWitness ==
  /\ EndSessionCompleted
  /\ Len(last.pre[3]) > 1
  /\ Busy(last.pre[1]) # {} /\ Busy(last.pre[2]) # {}

(***************************************************************************)
(* The recorder process started by tis_cam_windows_record                  *)
(* (tis_camera_win/record_video_queue.py, and record_video_ffmpeg.py which *)
(* has the same callback and loop around a single video).  The frame       *)
(* callback runs on the thread of the camera driver, the loop on the main  *)
(* thread.  A frame is named by the queue_counter of its callback.         *)
(***************************************************************************)
MaxFrames == 4

NewVideo == [frames |-> <<>>, released |-> FALSE]

\* video.release() on the video being written, video_all[-1]
release(video_all) ==
  [video_all EXCEPT ![Len(video_all)].released = TRUE]

\* create_video(close_previous)
create_video(video_all, close_previous) ==
  Append(IF close_previous THEN release(video_all) ELSE video_all, NewVideo)

\* Callback_User_Data.__init__ / CallbackUserdata.__init__ with its video
Callback_User_Data(timeout) ==
  [write_queue |-> <<>>, queue_counter |-> -1, written_counter |-> -1,
   video_all |-> create_video(<<>>, FALSE), timeout |-> timeout,
   time_last_frame_written |-> "None"]

\* timeout_was_reached: False without timeout or before the first frame,
\* else what the clock says
timeout_was_reached(pData) ==
  IF pData.timeout = "None" \/ pData.time_last_frame_written = "None"
  THEN {FALSE}
  ELSE BOOLEAN

\* __main__: the user data is built, the callback set, the camera started
\* and the loop entered
Launch(script, timeout) ==
  /\ recorder.loop = "off"
  /\ script = "record_video_ffmpeg" => timeout = "None"
  /\ user_data' = Callback_User_Data(timeout)
  /\ recorder' = [script |-> script, live |-> TRUE, callback |-> "idle",
                  loop |-> "poll", frame |-> -1]
  /\ UNCHANGED <<session, rpi, cams, rodents, users, folder, last, reqs,
                 storage, chunk, shared_status>>

\* Callback, up to the image being grabbed: queue_counter += 1
FrameReady ==
  /\ recorder.live /\ recorder.callback = "idle"
  /\ user_data.queue_counter + 1 < MaxFrames
  /\ user_data' = [user_data EXCEPT !.queue_counter = @ + 1]
  /\ recorder' = [recorder EXCEPT !.callback = "counted"]
  /\ UNCHANGED <<session, rpi, cams, rodents, users, folder, last, reqs,
                 storage, chunk, shared_status>>

\* Callback, the end: write_queue.append(cvMat)
FrameQueued ==
  /\ recorder.callback = "counted"
  /\ user_data' = [user_data EXCEPT
                     !.write_queue = Append(@, user_data.queue_counter)]
  /\ recorder' = [recorder EXCEPT !.callback = "idle"]
  /\ UNCHANGED <<session, rpi, cams, rodents, users, folder, last, reqs,
                 storage, chunk, shared_status>>

\* write_frame that takes the newest frame of the queue
LoopPopsNewest ==
  /\ recorder.loop = "poll"
  /\ Len(user_data.write_queue) > 0
  /\ user_data' = [user_data EXCEPT
                     !.write_queue = SubSeq(@, 1, Len(@) - 1)]
  /\ recorder' = [recorder EXCEPT
                    !.loop = "popped",
                    !.frame = user_data.write_queue[Len(user_data.write_queue)]]
  /\ UNCHANGED <<session, rpi, cams, rodents, users, folder, last, reqs,
                 storage, chunk, shared_status>>

\* loop: has_frame_to_write(), then write_frame up to popleft(); a new video
\* is created first when the timeout was reached
LoopPop ==
  /\ recorder.loop = "poll"
  /\ Len(user_data.write_queue) > 0
  /\ \E reached \in timeout_was_reached(user_data) :
       user_data' = [user_data EXCEPT
                       !.video_all = IF reached THEN create_video(@, TRUE)
                                     ELSE @,
                       !.write_queue = Tail(@)]
  /\ recorder' = [recorder EXCEPT !.loop = "popped",
                                  !.frame = Head(user_data.write_queue)]
  /\ UNCHANGED <<session, rpi, cams, rodents, users, folder, last, reqs,
                 storage, chunk, shared_status>>

\* write_frame: video.write(frame)
LoopWrite ==
  /\ recorder.loop = "popped"
  /\ user_data' = [user_data EXCEPT
                     !.video_all[Len(user_data.video_all)].frames =
                        Append(@, recorder.frame)]
  /\ recorder' = [recorder EXCEPT !.loop = "written"]
  /\ UNCHANGED <<session, rpi, cams, rodents, users, folder, last, reqs,
                 storage, chunk, shared_status>>

\* write_frame: written_counter += 1, the time of the write, return
LoopCount ==
  /\ recorder.loop = "written"
  /\ user_data' = [user_data EXCEPT !.written_counter = @ + 1,
                                    !.time_last_frame_written = "set"]
  /\ recorder' = [recorder EXCEPT !.loop = "poll", !.frame = -1]
  /\ UNCHANGED <<session, rpi, cams, rodents, users, folder, last, reqs,
                 storage, chunk, shared_status>>

\* KeyboardInterrupt anywhere in the loop, then the finally clause:
\* cam.StopLive() and the release of the video being written
KeyboardInterrupt ==
  /\ recorder.loop \in {"poll", "popped", "written"}
  /\ user_data' = [user_data EXCEPT !.video_all = release(@)]
  /\ recorder' = [recorder EXCEPT !.loop = "stopped", !.live = FALSE]
  /\ UNCHANGED <<session, rpi, cams, rodents, users, folder, last, reqs,
                 storage, chunk, shared_status>>

Scripts == {"record_video_queue", "record_video_ffmpeg"}
Timeouts == {"None", "set"}

NextQueue ==
  \/ \E script \in Scripts, timeout \in Timeouts : Launch(script, timeout)
  \/ FrameReady
  \/ FrameQueued
  \/ LoopPop
  \/ LoopWrite
  \/ LoopCount
  \/ KeyboardInterrupt

SpecQueue == Init /\ [][NextQueue]_vars

\* The frames written to disk, over the videos in the order of their creation
RECURSIVE Written(_)
Written(video_all) ==
  IF video_all = <<>> THEN <<>>
  ELSE Written(SubSeq(video_all, 1, Len(video_all) - 1))
         \o video_all[Len(video_all)].frames

\* The frames whose callback completed and whose write_frame did not
Waiting ==
  Len(user_data.write_queue) + (IF recorder.frame # -1 THEN 1 ELSE 0)

FramesWrittenInOrder ==
  \A i \in DOMAIN Written(user_data.video_all) :
    Written(user_data.video_all)[i] = i - 1

Appended ==
  0..(user_data.queue_counter
        - (IF recorder.callback = "counted" THEN 1 ELSE 0))

\* C38: once the recorder has stopped and released its video, every frame
\* the callback appended to write_queue is in a video.
NoFrameLost ==
  recorder.loop = "stopped" =>
    \A f \in Appended : \E i \in DOMAIN Written(user_data.video_all) :
      Written(user_data.video_all)[i] = f

(***************************************************************************)
(* The chunked recorder (tis_camera_win/record_video_chunks.py).  Each     *)
(* camera has its own recorder process; with autoCorrect the processes     *)
(* share the file .current_frame, which holds the frame number as text.    *)
(***************************************************************************)
nframes_per_chunk == 2
MaxCounter == 4

\* str(n) and int(s) on the decimal digits
str(n) == Digits(n)

RECURSIVE int(_)
int(s) ==
  IF Len(s) = 0 THEN 0
  ELSE 10 * int(SubSeq(s, 1, Len(s) - 1)) + s[Len(s)]

\* The module-level code and __main__: the shared file is connected and
\* initialised when it has no frame, the user data is built and the camera
\* started
ChunkLaunch(p, autoCorrect) ==
  /\ chunk[p].pc = "off"
  /\ shared_status' = IF autoCorrect /\ "frame" \notin DOMAIN shared_status
                      THEN [frame |-> str(0)]
                      ELSE shared_status
  /\ chunk' = [chunk EXCEPT ![p] =
                 [pc |-> "idle", autoCorrect |-> autoCorrect, counter |-> -1,
                  video |-> <<>>, shared_frame_number |-> -1, err |-> ""]]
  /\ UNCHANGED <<session, rpi, cams, rodents, users, folder, last, reqs,
                 storage, user_data, recorder>>

\* Whether a read of the shared file can find it being rewritten
BeingOverwritten(p) ==
  \E q \in Recorders \ {p} : chunk[q].autoCorrect /\ chunk[q].pc = "grabbed"

\* Callback, lines 109-139: the counter, the new chunk at a multiple of
\* nframes_per_chunk (the previous video is released, by its index), and
\* with autoCorrect the read of the shared frame number.  An index outside
\* the list of videos raises and ends the callback.
CallbackBegin(p) ==
  LET pData == chunk[p]
      counter == pData.counter + 1
      boundary == counter % nframes_per_chunk = 0
      previous == counter \div nframes_per_chunk
      raises == boundary /\ counter # 0 /\ previous \notin DOMAIN pData.video
      video == IF boundary
               THEN Append(IF counter # 0
                           THEN [pData.video EXCEPT ![previous].released = TRUE]
                           ELSE pData.video,
                           NewVideo)
               ELSE pData.video
  IN  /\ pData.pc = "idle"
      /\ pData.counter < MaxCounter
      /\ IF raises
         THEN chunk' = [chunk EXCEPT ![p].counter = counter,
                                     ![p].err = "IndexError"]
         ELSE \E torn \in {FALSE, BeingOverwritten(p)} :
                chunk' = [chunk EXCEPT
                            ![p].counter = counter,
                            ![p].video = video,
                            ![p].err = "",
                            ![p].pc = "grabbed",
                            ![p].shared_frame_number =
                               IF ~pData.autoCorrect THEN -1
                               ELSE IF torn THEN counter
                               ELSE int(shared_status["frame"])]
      /\ UNCHANGED <<session, rpi, cams, rodents, users, folder, last, reqs,
                     storage, user_data, recorder, shared_status>>

\* Callback, lines 142-162: the comparison with the number read, the write
\* of the shared file or the correction of the counter, then the frame is
\* written once or twice to the video of index counter // nframes_per_chunk
CallbackEnd(p) ==
  LET pData == chunk[p]
      first == pData.autoCorrect /\ pData.shared_frame_number < pData.counter
      late == pData.autoCorrect /\ pData.shared_frame_number > pData.counter
      counter == IF late THEN pData.counter + 1 ELSE pData.counter
      n_frames_to_write == IF late THEN 2 ELSE 1
      index == counter \div nframes_per_chunk + 1
  IN  /\ pData.pc = "grabbed"
      /\ shared_status' = IF first THEN [frame |-> str(pData.counter)]
                          ELSE shared_status
      /\ chunk' = [chunk EXCEPT
                     ![p].pc = "idle",
                     ![p].counter = counter,
                     ![p].err = IF index \in DOMAIN pData.video THEN ""
                                ELSE "IndexError",
                     ![p].video =
                        IF index \in DOMAIN pData.video
                        THEN [pData.video EXCEPT ![index].frames =
                                @ \o [i \in 1..n_frames_to_write |-> counter]]
                        ELSE pData.video]
      /\ UNCHANGED <<session, rpi, cams, rodents, users, folder, last, reqs,
                     storage, user_data, recorder>>

\* KeyboardInterrupt between two callbacks: the camera is stopped and the
\* process ends; the shared file stays
ChunkInterrupt(p) ==
  /\ chunk[p].pc = "idle"
  /\ chunk' = [chunk EXCEPT ![p] = NoChunkRecorder]
  /\ UNCHANGED <<session, rpi, cams, rodents, users, folder, last, reqs,
                 storage, user_data, recorder, shared_status>>

NextChunks ==
  \/ \E p \in Recorders, autoCorrect \in BOOLEAN : ChunkLaunch(p, autoCorrect)
  \/ \E p \in Recorders : CallbackBegin(p)
  \/ \E p \in Recorders : CallbackEnd(p)
  \/ \E p \in Recorders : ChunkInterrupt(p)

SpecChunks == Init /\ [][NextChunks]_vars

\* C39: no callback of the chunked recorder indexes the list of opened
\* videos outside its range.
ChunkIndexValid ==
  \A p \in Recorders : chunk[p].err # "IndexError"

\* C40: the frame number stored in the shared file never decreases.
SharedFrameNeverDecreases ==
  [][IF "frame" \in DOMAIN shared_status
     THEN int(shared_status'["frame"]) >= int(shared_status["frame"])
     ELSE TRUE]_vars
====
